---- MODULE Spec2Model ----
(***************************************************************************)
(* A model of the ch8-emu CHIP-8 virtual machine: memory, register file,   *)
(* call stack, timers, key latch, display and the opcode execution engine. *)
(* Every operation of the program is one action; the value an operation    *)
(* returns (Ok(..) or an error) is recorded in the variable last, and the  *)
(* registers, framebuffer and key latch it started from in the variable    *)
(* pre.                                                                    *)
(***************************************************************************)
EXTENDS Integers, Sequences, FiniteSets, TLC

VARIABLES
    memory,       \* Memory.memory: [u8; MEMORY_SIZE]
    v,            \* Registers.v: [u8; 16]
    i,            \* Registers.i: u16
    pc,           \* Registers.pc: u16
    stack,        \* Stack.stack: [u16; STACK_SIZE]
    sp,           \* Stack.sp: usize
    delay_timer,  \* Timers.delay_timer: u8
    sound_timer,  \* Timers.sound_timer: u8
    buffer,       \* Display.buffer: [[u8; BUFFER_WIDTH]; BUFFER_HEIGHT]
    key,          \* Input.key: Option<String>
    panicked,     \* TRUE once an operation has aborted the process
    overflow_checks, \* the build: TRUE traps integer overflow, FALSE wraps
    last,         \* the most recent call: its name, arguments and return value
    decoded,      \* what the most recent Opcode::from_bytes returned
    pre,          \* registers, stack depth and framebuffer before that call
    calls,        \* return addresses of the Calls not yet returned from
    pushed,       \* the values the stack harness has pushed, in order
    popped,       \* the values the stack harness has popped, in order
    steps,        \* how many opcodes, draws or timer ticks the run has executed
    timer_log     \* per timer: the value it was last set to, the ticks since

vars == <<memory, v, i, pc, stack, sp, delay_timer, sound_timer, buffer, key,
          panicked, overflow_checks, last, decoded, pre, calls, pushed, popped,
          steps, timer_log>>

----------------------------------------------------------------------------
(* Program constants.                                                      *)

MEMORY_SIZE == 4096
STACK_SIZE == 16
DATA_REGISTER_COUNT == 16
DISPLAY_WIDTH == 128
DISPLAY_HEIGHT == 64
BUFFER_WIDTH == DISPLAY_WIDTH \div 8
BUFFER_HEIGHT == DISPLAY_HEIGHT
PROGRAM_START_ADDRESS == 512

U8 == 256
U16 == 65536

\* Option<String>: None is the empty sequence, Some(s) the sequence holding s;
\* a string is the sequence of its characters.
NoKey == <<>>

Some(s) == <<s>>

----------------------------------------------------------------------------
(* The record of an invocation: op is the operation, a, b, c its numeric          *)
(* arguments (0 when it has fewer), spr its sprite argument, res "Ok" or   *)
(* the error returned ("panic" when the call aborted), val the value       *)
(* inside Ok (0 when it is the unit value).                                *)

Invocation(op, a, b, c, spr, res, val) ==
    [op |-> op, a |-> a, b |-> b, c |-> c, spr |-> spr, res |-> res, val |-> val]

\* The timers as Timers::new leaves them: both 0, never set, never ticked.
NoTimerLog == [delay_set |-> 0, delay_ticks |-> 0, sound_set |-> 0, sound_ticks |-> 0]

NoInvocation == Invocation("new", 0, 0, 0, <<>>, "Ok", 0)

\* An opcode is a record: its name and up to three operands (0 when it has
\* fewer).
Op(name, a, b, c) == [name |-> name, a |-> a, b |-> b, c |-> c]

\* A Result<Opcode, OpcodeError>: res is "Ok" with the opcode in op, or the
\* error with its payload in val.
NoDecode == [res |-> "none", op |-> Op("none", 0, 0, 0), val |-> 0]

Snapshot ==
    [v |-> v, i |-> i, pc |-> pc, sp |-> sp, buffer |-> buffer, key |-> key]

----------------------------------------------------------------------------
(* Memory (src/src/chip8/memory.rs).                                       *)

Memory_new == [a \in 0 .. MEMORY_SIZE - 1 |-> 0]

read_byte(mem, address) ==
    IF address >= MEMORY_SIZE
    THEN [res |-> "AddressOutOfBounds", val |-> 0]
    ELSE [res |-> "Ok", val |-> mem[address]]

WriteByteNoStore(mem, address, value) ==
    IF address >= MEMORY_SIZE
    THEN [res |-> "AddressOutOfBounds", mem |-> mem]
    ELSE [res |-> "Ok", mem |-> mem]

write_byte(mem, address, value) ==
    IF address >= MEMORY_SIZE
    THEN [res |-> "AddressOutOfBounds", mem |-> mem]
    ELSE [res |-> "Ok", mem |-> [mem EXCEPT ![address] = value]]

----------------------------------------------------------------------------
(* Construction: Chip8::new and the new() of each component.               *)

Stack_new == [k \in 0 .. STACK_SIZE - 1 |-> 0]
Display_new == [r \in 0 .. BUFFER_HEIGHT - 1 |-> [c \in 0 .. BUFFER_WIDTH - 1 |-> 0]]
Registers_new == [k \in 0 .. DATA_REGISTER_COUNT - 1 |-> 0]

StartWith(regs, counter, stk, depth) ==
    /\ memory = Memory_new
    /\ v = regs
    /\ i = 0
    /\ pc = counter
    /\ stack = stk
    /\ sp = depth
    /\ delay_timer = 0
    /\ sound_timer = 0
    /\ buffer = Display_new
    /\ key = NoKey
    /\ panicked = FALSE
    /\ overflow_checks \in BOOLEAN
    /\ last = NoInvocation
    /\ decoded = NoDecode
    /\ pre = Snapshot
    /\ calls = [k \in 1 .. depth |-> stk[k - 1]]
    /\ pushed = <<>>
    /\ popped = <<>>
    /\ steps = 0
    /\ timer_log = NoTimerLog

Chip8_new == StartWith(Registers_new, 0, Stack_new, 0)

----------------------------------------------------------------------------
(* The memory on its own: any sequence of read_byte and write_byte calls.  *)

MemAddresses == {0, 512, 4095, 4096, 20480, 65535}
MemValues == {0, 1, 171, 255}

MemWriteByte(address, value) ==
    /\ ~panicked
    /\ LET w == write_byte(memory, address, value) IN
         /\ memory' = w.mem
         /\ last' = Invocation("write_byte", address, value, 0, <<>>, w.res, 0)
    /\ pre' = Snapshot
    /\ UNCHANGED <<timer_log, overflow_checks, decoded, v, i, pc, stack, sp, delay_timer,
                   sound_timer, buffer, key, panicked, calls, pushed, popped,
                   steps>>

MemReadByte(address) ==
    /\ ~panicked
    /\ LET r == read_byte(memory, address) IN
         last' = Invocation("read_byte", address, 0, 0, <<>>, r.res, r.val)
    /\ pre' = Snapshot
    /\ UNCHANGED <<timer_log, overflow_checks, decoded, memory, v, i, pc, stack, sp,
                   delay_timer, sound_timer, buffer, key, panicked, calls,
                   pushed, popped, steps>>

MemInit == Chip8_new

MemNext ==
    \/ \E a \in MemAddresses, b \in MemValues : MemWriteByte(a, b)
    \/ \E a \in MemAddresses : MemReadByte(a)

SpecMemory == MemInit /\ [][MemNext]_vars

\* C1: for every address a < 4096 and byte b, write_byte(a, b) followed by
\* read_byte(a) returns Ok(b); for every address a >= 4096 both read_byte and
\* write_byte return AddressOutOfBounds (and a < 4096 never does).
C1_WriteThenRead ==
    [][/\ (/\ last.op = "write_byte"
           /\ last'.op = "read_byte"
           /\ last'.a = last.a
           /\ last.a < MEMORY_SIZE)
          => (last.res = "Ok" /\ last'.res = "Ok" /\ last'.val = last.b)
       /\ (last'.op \in {"read_byte", "write_byte"})
          => (last'.res = "AddressOutOfBounds" <=> last'.a >= MEMORY_SIZE)
      ]_vars

\* C1 witness: a byte other than the initial 0 was written below 4096 and
\* read back from memory's last cell.
C1_Witness ==
    /\ last.op = "read_byte"
    /\ last.a = 4095
    /\ last.res = "Ok"
    /\ last.val = 171

----------------------------------------------------------------------------
(* Stack (src/src/chip8/stack.rs).                                         *)

PushOffByOne(stk, p, value) ==
    IF p > STACK_SIZE
    THEN [res |-> "StackOverflow", stack |-> stk, sp |-> p]
    ELSE [res |-> "Ok",
          stack |-> [k \in DOMAIN stk |-> IF k = p THEN value ELSE stk[k]],
          sp |-> p + 1]

push(stk, p, value) ==
    IF p >= STACK_SIZE
    THEN [res |-> "StackOverflow", stack |-> stk, sp |-> p]
    ELSE [res |-> "Ok", stack |-> [stk EXCEPT ![p] = value], sp |-> p + 1]

PopBottom(stk, p) ==
    IF p = 0
    THEN [res |-> "StackUnderflow", val |-> 0, sp |-> p]
    ELSE [res |-> "Ok", val |-> stk[0], sp |-> p - 1]

pop(stk, p) ==
    IF p = 0
    THEN [res |-> "StackUnderflow", val |-> 0, sp |-> p]
    ELSE [res |-> "Ok", val |-> stk[p - 1], sp |-> p - 1]

----------------------------------------------------------------------------
(* The stack on its own: a run pushes the first values of one of the       *)
(* workloads below (17 values each, one more than the stack holds) and     *)
(* then pops; a pop may also come first, from the empty stack.             *)

WorkloadLen == STACK_SIZE + 1

Workloads ==
    { [n \in 1 .. WorkloadLen |-> 291],                            \* 0x123 each time
      [n \in 1 .. WorkloadLen |-> 512 + 2 * n],                    \* rising
      [n \in 1 .. WorkloadLen |-> 65535 - 273 * (n - 1)],          \* falling from 0xFFFF
      [n \in 1 .. WorkloadLen |-> <<291, 1110, 1929, 2748>>[((n - 1) % 4) + 1]] }

NextValues == { w[Len(pushed) + 1] : w \in { x \in Workloads :
                    \A n \in 1 .. Len(pushed) : x[n] = pushed[n] } }

StackPush(value) ==
    /\ ~panicked
    /\ popped = <<>>
    /\ LET r == push(stack, sp, value) IN
         /\ stack' = r.stack
         /\ sp' = r.sp
         /\ pushed' = IF r.res = "Ok" THEN Append(pushed, value) ELSE pushed
         /\ last' = Invocation("push", value, 0, 0, <<>>, r.res, 0)
    /\ pre' = Snapshot
    /\ UNCHANGED <<timer_log, overflow_checks, decoded, memory, v, i, pc, delay_timer,
                   sound_timer, buffer, key, panicked, calls, popped, steps>>

StackPop ==
    /\ ~panicked
    /\ LET r == pop(stack, sp) IN
         /\ sp' = r.sp
         /\ popped' = IF r.res = "Ok" THEN Append(popped, r.val) ELSE popped
         /\ last' = Invocation("pop", 0, 0, 0, <<>>, r.res, r.val)
    /\ pre' = Snapshot
    /\ UNCHANGED <<timer_log, overflow_checks, decoded, memory, v, i, pc, stack,
                   delay_timer, sound_timer, buffer, key, panicked, calls,
                   pushed, steps>>

StackInit == Chip8_new

StackNext ==
    \/ \E value \in NextValues : StackPush(value)
    \/ StackPop

SpecStack == StackInit /\ [][StackNext]_vars

\* C2: for any k <= 16, pushing k values onto an empty stack and then
\* popping k times returns the values in exact reverse order of pushing:
\* the j-th pop returns the j-th last value pushed, and the depth is the
\* number of values pushed and not yet popped.
C2_Lifo ==
    /\ Len(pushed) <= STACK_SIZE
    /\ Len(popped) <= Len(pushed)
    /\ \A j \in 1 .. Len(popped) : popped[j] = pushed[Len(pushed) - j + 1]
    /\ sp = Len(pushed) - Len(popped)

\* C2 witness: 16 different values were pushed and all 16 popped again.
C2_Witness ==
    /\ Len(pushed) = STACK_SIZE
    /\ Len(popped) = STACK_SIZE
    /\ pushed[1] # pushed[STACK_SIZE]
    /\ popped[1] = pushed[STACK_SIZE]
    /\ popped[STACK_SIZE] = pushed[1]

\* C3: a push onto a stack already holding 16 entries returns StackOverflow
\* and a pop from an empty stack returns StackUnderflow; in both cases the
\* stack's entries and depth are exactly as before the call.
C3_StackErrors ==
    [][/\ (last'.op = "push" /\ sp = STACK_SIZE)
          => (last'.res = "StackOverflow" /\ stack' = stack /\ sp' = sp)
       /\ (last'.op = "pop" /\ sp = 0)
          => (last'.res = "StackUnderflow" /\ stack' = stack /\ sp' = sp)
      ]_vars

\* C3 witness: a push was refused on a full stack of distinct entries.
C3_Witness ==
    /\ last.op = "push"
    /\ last.res = "StackOverflow"
    /\ sp = STACK_SIZE
    /\ stack[0] # stack[STACK_SIZE - 1]

\* C3 witness, second case: a pop was refused once the stack was emptied again.
C3_WitnessUnderflow ==
    /\ last.op = "pop"
    /\ last.res = "StackUnderflow"
    /\ sp = 0
    /\ Len(popped) > 0

----------------------------------------------------------------------------
(* Display (src/src/chip8/display.rs).  Bytes are numbers 0..255; bit 7 is *)
(* the leftmost pixel of a storage byte.                                   *)

Bit(b, k) == (b \div (2 ^ k)) % 2

BitAnd(a, b) ==
    LET f[k \in 0 .. 8] == IF k = 8 THEN 0
                           ELSE Bit(a, k) * Bit(b, k) * (2 ^ k) + f[k + 1]
    IN  f[0]

BitXor(a, b) ==
    LET f[k \in 0 .. 8] == IF k = 8 THEN 0
                           ELSE ((Bit(a, k) + Bit(b, k)) % 2) * (2 ^ k) + f[k + 1]
    IN  f[0]

\* u8::overflowing_shl / overflowing_shr: the shift amount is taken mod 8 and
\* the bits shifted out of the byte are dropped.
overflowing_shl(b, n) == (b * (2 ^ (n % 8))) % U8

overflowing_shr(b, n) == b \div (2 ^ (n % 8))

bit_erased(original, current) ==
    \E bit_idx \in 0 .. 7 : Bit(original, bit_idx) = 1 /\ Bit(current, bit_idx) = 0

Display_clear(buf) == [r \in DOMAIN buf |-> [c \in DOMAIN buf[r] |-> 0]]

DrawSpriteRowOr(buf, row, col, value) ==
    LET row_idx == row % BUFFER_HEIGHT
        col_idx == col \div 8
        start_bit_idx == col % 8
        value1 == overflowing_shr(BitAnd(value, overflowing_shl(255, start_bit_idx)),
                                  start_bit_idx)
        new1 == buf[row_idx][col_idx] + value1 - BitAnd(buf[row_idx][col_idx], value1)
        buf1 == [buf EXCEPT ![row_idx][col_idx] = new1]
        next_idx == (col_idx + 1) % BUFFER_WIDTH
        value2 == overflowing_shl(BitAnd(value, overflowing_shr(255, start_bit_idx)),
                                  8 - start_bit_idx)
        new2 == buf1[row_idx][next_idx] + value2 - BitAnd(buf1[row_idx][next_idx], value2)
    IN  IF col_idx >= BUFFER_WIDTH
        THEN [buffer |-> buf, erased |-> FALSE, panic |-> TRUE]
        ELSE IF start_bit_idx = 0
        THEN [buffer |-> buf1, erased |-> FALSE, panic |-> FALSE]
        ELSE [buffer |-> [buf1 EXCEPT ![row_idx][next_idx] = new2],
              erased |-> FALSE, panic |-> FALSE]

draw_sprite_row(buf, row, col, value) ==
    LET row_idx == row % BUFFER_HEIGHT
        col_idx == col \div 8
        start_bit_idx == col % 8
        mask1 == overflowing_shl(255, start_bit_idx)
        masked_value1 == overflowing_shr(BitAnd(value, mask1), start_bit_idx)
        original_value1 == buf[row_idx][col_idx]
        buf1 == [buf EXCEPT ![row_idx][col_idx] = BitXor(@, masked_value1)]
        erased1 == bit_erased(original_value1, buf1[row_idx][col_idx])
        next_idx == (col_idx + 1) % BUFFER_WIDTH
        mask2 == overflowing_shr(255, start_bit_idx)
        masked_value2 == overflowing_shl(BitAnd(value, mask2), 8 - start_bit_idx)
        original_value2 == buf1[row_idx][next_idx]
        buf2 == [buf1 EXCEPT ![row_idx][next_idx] = BitXor(@, masked_value2)]
        erased2 == IF ~erased1
                   THEN bit_erased(original_value2, buf2[row_idx][next_idx])
                   ELSE erased1
    IN  IF col_idx >= BUFFER_WIDTH       \* buffer[row_idx][col_idx]: index out of bounds
        THEN [buffer |-> buf, erased |-> FALSE, panic |-> TRUE]
        ELSE IF start_bit_idx # 0
        THEN [buffer |-> buf2, erased |-> erased2, panic |-> FALSE]
        ELSE [buffer |-> buf1, erased |-> erased1, panic |-> FALSE]

RECURSIVE DrawRowsKeepLast(_, _, _, _, _, _)
DrawRowsKeepLast(buf, row, col, sprite_value, k, erased) ==
    IF k > Len(sprite_value)
    THEN [buffer |-> buf, erased |-> erased, panic |-> FALSE]
    ELSE LET r == draw_sprite_row(buf, (row + (k - 1)) % BUFFER_HEIGHT, col,
                                  sprite_value[k])
         IN  IF r.panic
             THEN [buffer |-> r.buffer, erased |-> erased, panic |-> TRUE]
             ELSE DrawRowsKeepLast(r.buffer, row, col, sprite_value, k + 1,
                                   r.erased)

RECURSIVE DrawRowsClampBottom(_, _, _, _, _, _)
DrawRowsClampBottom(buf, row, col, sprite_value, k, erased) ==
    IF k > Len(sprite_value)
    THEN [buffer |-> buf, erased |-> erased, panic |-> FALSE]
    ELSE LET at == IF row + (k - 1) < BUFFER_HEIGHT THEN row + (k - 1)
                   ELSE BUFFER_HEIGHT - 1
             r == draw_sprite_row(buf, at, col, sprite_value[k])
         IN  IF r.panic
             THEN [buffer |-> r.buffer, erased |-> erased, panic |-> TRUE]
             ELSE DrawRowsClampBottom(r.buffer, row, col, sprite_value, k + 1,
                                      erased \/ r.erased)

\* The loop of draw_sprite from the k-th sprite byte on.
RECURSIVE DrawRows(_, _, _, _, _, _)
DrawRows(buf, row, col, sprite_value, k, erased) ==
    IF k > Len(sprite_value)
    THEN [buffer |-> buf, erased |-> erased, panic |-> FALSE]
    ELSE LET r == draw_sprite_row(buf, (row + (k - 1)) % BUFFER_HEIGHT, col,
                                  sprite_value[k])
         IN  IF r.panic
             THEN [buffer |-> r.buffer, erased |-> erased, panic |-> TRUE]
             ELSE DrawRows(r.buffer, row, col, sprite_value, k + 1,
                           erased \/ r.erased)

draw_sprite(buf, row, col, sprite_value) ==
    DrawRows(buf, row, col, sprite_value, 1, FALSE)

----------------------------------------------------------------------------
(* Register file: Registers::read_v and Registers::write_v, which the      *)
(* engine calls with a decoded 4-bit register index.                       *)

read_v(regs, x) == regs[x]

write_v(regs, x, value) == [regs EXCEPT ![x] = value]

----------------------------------------------------------------------------
(* The execution engine (src/src/chip8.rs).  An opcode is a record: its    *)
(* name and up to three operands.  Each opcode's function maps the machine *)
(* m (a record of the machine's fields) to the machine it leaves; the ones *)
(* that can fail return the Result's tag with it.                          *)

Machine ==
    [memory |-> memory, v |-> v, i |-> i, pc |-> pc, stack |-> stack, sp |-> sp,
     delay_timer |-> delay_timer, sound_timer |-> sound_timer,
     buffer |-> buffer, key |-> key,
     overflow_checks |-> overflow_checks]

Done(m) == [res |-> "Ok", m |-> m]

Failed(err, m) == [res |-> err, m |-> m]

AddRegCarryFrom255(m, vx, vy) ==
    LET vx_val == read_v(m.v, vx)
        vy_val == read_v(m.v, vy)
        result == (vx_val + vy_val) % U8
        overflow == vx_val + vy_val >= U8 - 1
    IN  [m EXCEPT !.v = write_v(write_v(m.v, vx, result), 15,
                                IF overflow THEN 1 ELSE 0)]

add_reg(m, vx, vy) ==
    LET vx_val == read_v(m.v, vx)
        vy_val == read_v(m.v, vy)
        result == (vx_val + vy_val) % U8          \* overflowing_add
        overflow == vx_val + vy_val >= U8
    IN  [m EXCEPT !.v = write_v(write_v(m.v, vx, result), 15,
                                IF overflow THEN 1 ELSE 0)]

SubFlagFirst(m, vx, vy) ==
    LET vx_val == read_v(m.v, vx)
        vy_val == read_v(m.v, vy)
        result == (vx_val - vy_val + U8) % U8
        borrow == vx_val < vy_val
    IN  [m EXCEPT !.v = write_v(write_v(m.v, 15, IF borrow THEN 0 ELSE 1),
                                vx, result)]

sub(m, vx, vy) ==
    LET vx_val == read_v(m.v, vx)
        vy_val == read_v(m.v, vy)
        result == (vx_val - vy_val + U8) % U8     \* overflowing_sub
        borrow == vx_val < vy_val
    IN  [m EXCEPT !.v = write_v(write_v(m.v, vx, result), 15,
                                IF borrow THEN 0 ELSE 1)]

SubnAsSub(m, vx, vy) ==
    LET vx_val == read_v(m.v, vx)
        vy_val == read_v(m.v, vy)
        result == (vx_val - vy_val + U8) % U8
        borrow == vx_val < vy_val
    IN  [m EXCEPT !.v = write_v(write_v(m.v, vx, result), 15,
                                IF borrow THEN 0 ELSE 1)]

subn(m, vx, vy) ==
    LET vx_val == read_v(m.v, vx)
        vy_val == read_v(m.v, vy)
        result == (vy_val - vx_val + U8) % U8     \* vy_val.overflowing_sub(vx_val)
        borrow == vy_val < vx_val
    IN  [m EXCEPT !.v = write_v(write_v(m.v, vx, result), 15,
                                IF borrow THEN 0 ELSE 1)]

ShiftRightFlagAfter(m, vx) ==
    LET vx_val == read_v(m.v, vx)
        shifted == vx_val \div 2
        lsb == shifted % 2
    IN  [m EXCEPT !.v = write_v(write_v(m.v, vx, shifted), 15, lsb)]

shift_right(m, vx) ==
    LET vx_val == read_v(m.v, vx)
        lsb == vx_val % 2                         \* vx_val & 0b00000001
    IN  [m EXCEPT !.v = write_v(write_v(m.v, vx, vx_val \div 2), 15, lsb)]

shift_left(m, vx) ==
    LET vx_val == read_v(m.v, vx)
        overflow == (vx_val \div 128) % 2 # 0     \* vx_val & 0b10000000 != 0
    IN  [m EXCEPT !.v = write_v(write_v(m.v, vx, (vx_val * 2) % U8), 15,
                                IF overflow THEN 1 ELSE 0)]

load_byte(m, vx, byte) == [m EXCEPT !.v = write_v(m.v, vx, byte)]

jump(m, addr) == [m EXCEPT !.pc = addr]

CallJumpsFirst(m, addr) ==
    LET r == push(m.stack, m.sp, m.pc)
        n == [m EXCEPT !.stack = r.stack, !.sp = r.sp, !.pc = addr]
    IN  IF r.res # "Ok" THEN Failed(r.res, n) ELSE Done(n)

CallPushesTarget(m, addr) ==
    LET r == push(m.stack, m.sp, addr)
        n == [m EXCEPT !.stack = r.stack, !.sp = r.sp]
    IN  IF r.res # "Ok" THEN Failed(r.res, n) ELSE Done([n EXCEPT !.pc = addr])

call(m, addr) ==
    LET r == push(m.stack, m.sp, m.pc)
        n == [m EXCEPT !.stack = r.stack, !.sp = r.sp]
    IN  IF r.res # "Ok" THEN Failed(r.res, n) ELSE Done([n EXCEPT !.pc = addr])

ReturnFromKeepsDepth(m) ==
    LET r == pop(m.stack, m.sp)
    IN  IF r.res # "Ok" THEN Failed(r.res, m) ELSE Done([m EXCEPT !.pc = r.val])

return_from(m) ==
    LET r == pop(m.stack, m.sp)
        n == [m EXCEPT !.sp = r.sp]
    IN  IF r.res # "Ok" THEN Failed(r.res, n) ELSE Done([n EXCEPT !.pc = r.val])

set_index(m, addr) == [m EXCEPT !.i = addr]

clear_display(m) == [m EXCEPT !.buffer = Display_clear(m.buffer)]

RECURSIVE RegDumpExclusive(_, _, _)
RegDumpExclusive(m, vx, reg) ==
    IF reg >= vx
    THEN Done(m)
    ELSE LET w == write_byte(m.memory, m.i + reg, read_v(m.v, reg))
         IN  IF w.res # "Ok"
             THEN Failed(w.res, m)
             ELSE RegDumpExclusive([m EXCEPT !.memory = w.mem], vx, reg + 1)

\* The loop of reg_dump from register reg on; a failed write ends it with the
\* earlier writes in place.
RECURSIVE RegDumpFrom(_, _, _)
RegDumpFrom(m, vx, reg) ==
    IF reg > vx
    THEN Done(m)
    ELSE LET w == write_byte(m.memory, m.i + reg, read_v(m.v, reg))
         IN  IF w.res # "Ok"
             THEN Failed(w.res, m)
             ELSE RegDumpFrom([m EXCEPT !.memory = w.mem], vx, reg + 1)

reg_dump(m, vx) == RegDumpFrom(m, vx, 0)

\* The font table and where boot puts it.
BUILT_IN_SPRITES ==
    << <<240, 144, 144, 144, 240>>,
       <<32, 96, 32, 32, 112>>,
       <<240, 16, 240, 128, 240>>,
       <<240, 16, 240, 16, 240>>,
       <<144, 144, 240, 16, 16>>,
       <<240, 128, 240, 16, 240>>,
       <<240, 128, 240, 144, 240>>,
       <<240, 16, 32, 64, 64>>,
       <<240, 144, 240, 144, 240>>,
       <<240, 144, 240, 16, 240>>,
       <<224, 144, 224, 144, 224>>,
       <<240, 128, 128, 128, 240>>,
       <<224, 144, 144, 144, 224>>,
       <<240, 128, 240, 128, 240>>,
       <<240, 128, 240, 128, 128>> >>

SPRITE_START_ADDRESS == 0

\* The two loops of load_sprites from the n-th byte of the table on.
RECURSIVE LoadSpritesFrom(_, _)
LoadSpritesFrom(m, n) ==
    LET sprite_size == Len(BUILT_IN_SPRITES[1])
        sprite_idx == n \div sprite_size
        byte_idx == n % sprite_size
        write_addr == SPRITE_START_ADDRESS + sprite_idx * sprite_size + byte_idx
    IN  IF n >= Len(BUILT_IN_SPRITES) * sprite_size
        THEN Done(m)
        ELSE LET w == write_byte(m.memory, write_addr,
                                 BUILT_IN_SPRITES[sprite_idx + 1][byte_idx + 1])
             IN  IF w.res # "Ok"
                 THEN Failed(w.res, m)
                 ELSE LoadSpritesFrom([m EXCEPT !.memory = w.mem], n + 1)

load_sprites(m) == LoadSpritesFrom(m, 0)

boot(m) == load_sprites([m EXCEPT !.pc = PROGRAM_START_ADDRESS])

\* The loop of draw that reads the sprite: sprite holds the bytes read so far.
RECURSIVE ReadSprite(_, _, _, _)
ReadSprite(mem, sprite_addr, n, sprite) ==
    IF Len(sprite) >= n
    THEN [res |-> "Ok", sprite |-> sprite]
    ELSE LET r == read_byte(mem, sprite_addr + Len(sprite))
         IN  IF r.res # "Ok"
             THEN [res |-> r.res, sprite |-> sprite]
             ELSE ReadSprite(mem, sprite_addr, n, Append(sprite, r.val))

DrawFlagFirst(m, vx, vy, n) ==
    LET col == read_v(m.v, vx)
        row == read_v(m.v, vy)
        cleared == [m EXCEPT !.v = write_v(m.v, 15, 0)]
        rd == ReadSprite(m.memory, m.i, n, <<>>)
        d == draw_sprite(m.buffer, row, col, rd.sprite)
    IN  IF rd.res # "Ok"
        THEN Failed(rd.res, cleared)
        ELSE IF d.panic
        THEN [res |-> "panic", m |-> [cleared EXCEPT !.buffer = d.buffer]]
        ELSE Done([m EXCEPT !.buffer = d.buffer,
                            !.v = write_v(m.v, 15, IF d.erased THEN 1 ELSE 0)])

DrawSwapsCoordinates(m, vx, vy, n) ==
    LET col == read_v(m.v, vy)
        row == read_v(m.v, vx)
        rd == ReadSprite(m.memory, m.i, n, <<>>)
        d == draw_sprite(m.buffer, row, col, rd.sprite)
    IN  IF rd.res # "Ok"
        THEN Failed(rd.res, m)
        ELSE IF d.panic
        THEN [res |-> "panic", m |-> [m EXCEPT !.buffer = d.buffer]]
        ELSE Done([m EXCEPT !.buffer = d.buffer,
                            !.v = write_v(m.v, 15, IF d.erased THEN 1 ELSE 0)])

draw(m, vx, vy, n) ==
    LET col == read_v(m.v, vx)
        row == read_v(m.v, vy)
        rd == ReadSprite(m.memory, m.i, n, <<>>)
        d == draw_sprite(m.buffer, row, col, rd.sprite)
    IN  IF rd.res # "Ok"
        THEN Failed(rd.res, m)
        ELSE IF d.panic
        THEN [res |-> "panic", m |-> [m EXCEPT !.buffer = d.buffer]]
        ELSE Done([m EXCEPT !.buffer = d.buffer,
                            !.v = write_v(m.v, 15, IF d.erased THEN 1 ELSE 0)])

\* A string is the sequence of its characters.  char::to_digit(16): the value
\* of a hexadecimal digit of either case, -1 for None.
LowerHexDigits ==
    <<"0", "1", "2", "3", "4", "5", "6", "7", "8", "9", "a", "b", "c", "d", "e", "f">>

UpperHexDigits ==
    <<"0", "1", "2", "3", "4", "5", "6", "7", "8", "9", "A", "B", "C", "D", "E", "F">>

to_digit(ch) ==
    IF \E d \in 1 .. 16 : LowerHexDigits[d] = ch
    THEN (CHOOSE d \in 1 .. 16 : LowerHexDigits[d] = ch) - 1
    ELSE IF \E d \in 1 .. 16 : UpperHexDigits[d] = ch
    THEN (CHOOSE d \in 1 .. 16 : UpperHexDigits[d] = ch) - 1
    ELSE -1

\* The digit loop of u8::from_str_radix(src, 16) from the k-th character on.
RECURSIVE ParseDigits(_, _, _)
ParseDigits(digits, k, acc) ==
    IF k > Len(digits)
    THEN [ok |-> TRUE, val |-> acc]
    ELSE IF to_digit(digits[k]) = -1 \/ acc * 16 + to_digit(digits[k]) >= U8
    THEN [ok |-> FALSE, val |-> 0]
    ELSE ParseDigits(digits, k + 1, acc * 16 + to_digit(digits[k]))

\* u8::from_str_radix(src, 16): the empty string and a lone sign are errors,
\* one leading "+" is accepted, a value above 255 is an error.
from_str_radix(src) ==
    IF Len(src) = 0
    THEN [ok |-> FALSE, val |-> 0]
    ELSE IF Len(src) = 1 /\ src[1] \in {"+", "-"}
    THEN [ok |-> FALSE, val |-> 0]
    ELSE IF src[1] = "+"
    THEN ParseDigits(Tail(src), 1, 0)
    ELSE ParseDigits(src, 1, 0)

\* format!("{:x}", n): lowercase hexadecimal digits, no leading zeros.
RECURSIVE format_x(_)
format_x(n) ==
    IF n < 16
    THEN <<LowerHexDigits[n + 1]>>
    ELSE Append(format_x(n \div 16), LowerHexDigits[(n % 16) + 1])

\* Input::get_key_u8: Ok(None), Ok(Some(val)) or Err(InvalidKey(err)), err
\* the string in the latch.
get_key_u8(k) ==
    IF k = NoKey
    THEN [res |-> "Ok", some |-> FALSE, val |-> 0, err |-> <<>>]
    ELSE IF from_str_radix(k[1]).ok
    THEN [res |-> "Ok", some |-> TRUE, val |-> from_str_radix(k[1]).val,
          err |-> <<>>]
    ELSE [res |-> "InvalidKey", some |-> FALSE, val |-> 0, err |-> k[1]]

get_pressed_key_u8(m) == get_key_u8(m.key)

\* registers.pc = value, where value is the result of a u16 addition or
\* subtraction: out of range it aborts the process in a build with overflow
\* checks and wraps in a build without.
SetPc(m, value) ==
    IF value >= 0 /\ value < U16
    THEN Done([m EXCEPT !.pc = value])
    ELSE IF m.overflow_checks
    THEN [res |-> "panic", m |-> m]
    ELSE Done([m EXCEPT !.pc = value % U16])

WaitForKeyAlwaysRewinds(m, vx) ==
    LET k == get_pressed_key_u8(m)
    IN  IF k.res # "Ok"
        THEN Failed(k.res, m)
        ELSE IF k.some
        THEN SetPc([m EXCEPT !.v = write_v(m.v, vx, k.val)], m.pc - 2)
        ELSE SetPc(m, m.pc - 2)

WaitForKeyRewindsFirst(m, vx) ==
    LET k == get_pressed_key_u8(m)
        back == SetPc(m, m.pc - 2)
    IN  IF k.res # "Ok"
        THEN Failed(k.res, back.m)
        ELSE IF k.some
        THEN Done([m EXCEPT !.v = write_v(m.v, vx, k.val)])
        ELSE back

wait_for_key(m, vx) ==
    LET k == get_pressed_key_u8(m)
    IN  IF k.res # "Ok"
        THEN Failed(k.res, m)
        ELSE IF k.some
        THEN Done([m EXCEPT !.v = write_v(m.v, vx, k.val)])
        ELSE SetPc(m, m.pc - 2)

SkipIfPressedAnyKey(m, vx) ==
    IF m.key # NoKey
    THEN SetPc(m, m.pc + 2)
    ELSE Done(m)

skip_if_pressed(m, vx) ==
    LET expected_key == format_x(read_v(m.v, vx))
    IN  IF m.key # NoKey /\ m.key[1] = expected_key
        THEN SetPc(m, m.pc + 2)
        ELSE Done(m)

skip_if_not_pressed(m, vx) ==
    LET expected_key == format_x(read_v(m.v, vx))
    IN  IF m.key = NoKey \/ m.key[1] # expected_key
        THEN SetPc(m, m.pc + 2)
        ELSE Done(m)

\* The engine's timer opcodes and Timers::decrement_timers, the timer tick.
set_delay_timer(m, vx) == [m EXCEPT !.delay_timer = read_v(m.v, vx)]

SetSoundTimerSetsBoth(m, vx) ==
    [m EXCEPT !.sound_timer = read_v(m.v, vx), !.delay_timer = read_v(m.v, vx)]

set_sound_timer(m, vx) == [m EXCEPT !.sound_timer = read_v(m.v, vx)]

load_delay_timer(m, vx) == [m EXCEPT !.v = write_v(m.v, vx, m.delay_timer)]

DecrementTimersWrapping(m) ==
    [m EXCEPT !.delay_timer = (m.delay_timer + U8 - 1) % U8,
              !.sound_timer = (m.sound_timer + U8 - 1) % U8]

DecrementTimersDelayOnly(m) ==
    [m EXCEPT !.delay_timer = IF m.delay_timer > 0 THEN m.delay_timer - 1
                              ELSE m.delay_timer]

decrement_timers(m) ==
    [m EXCEPT !.delay_timer = IF m.delay_timer > 0 THEN m.delay_timer - 1
                              ELSE m.delay_timer,
              !.sound_timer = IF m.sound_timer > 0 THEN m.sound_timer - 1
                              ELSE m.sound_timer]

RECURSIVE RegLoadAllOrNothing(_, _, _)
RegLoadAllOrNothing(m, vx, reg) ==
    IF reg > vx
    THEN Done(m)
    ELSE LET r == read_byte(m.memory, m.i + reg)
             rest == RegLoadAllOrNothing([m EXCEPT !.v = write_v(m.v, reg, r.val)],
                                         vx, reg + 1)
         IN  IF r.res # "Ok"
             THEN Failed(r.res, m)
             ELSE IF rest.res # "Ok" THEN Failed(rest.res, m) ELSE rest

\* The loop of reg_load from register reg on; a failed read ends it with the
\* earlier registers loaded.
RECURSIVE RegLoadFrom(_, _, _)
RegLoadFrom(m, vx, reg) ==
    IF reg > vx
    THEN Done(m)
    ELSE LET r == read_byte(m.memory, m.i + reg)
         IN  IF r.res # "Ok"
             THEN Failed(r.res, m)
             ELSE RegLoadFrom([m EXCEPT !.v = write_v(m.v, reg, r.val)],
                              vx, reg + 1)

reg_load(m, vx) == RegLoadFrom(m, vx, 0)

\* memory.write_byte(address, value).unwrap(): an error aborts the process.
WriteByteUnwrap(r, address, value) ==
    IF r.res # "Ok"
    THEN r
    ELSE LET w == write_byte(r.m.memory, address, value)
         IN  IF w.res # "Ok"
             THEN [res |-> "panic", m |-> r.m]
             ELSE Done([r.m EXCEPT !.memory = w.mem])

StoreBcdOnesFirst(m, vx) ==
    LET vx_val == read_v(m.v, vx)
    IN  WriteByteUnwrap(
            WriteByteUnwrap(
                WriteByteUnwrap(Done(m), m.i, vx_val % 10),
                m.i + 1, (vx_val \div 10) % 10),
            m.i + 2, vx_val \div 100)

store_bcd(m, vx) ==
    LET vx_val == read_v(m.v, vx)
    IN  WriteByteUnwrap(
            WriteByteUnwrap(
                WriteByteUnwrap(Done(m), m.i, vx_val \div 100),
                m.i + 1, (vx_val \div 10) % 10),
            m.i + 2, vx_val % 10)

GetSpriteAddressStrict(sprite) ==
    IF sprite >= Len(BUILT_IN_SPRITES)
    THEN [res |-> "InvalidSprite", val |-> sprite]
    ELSE [res |-> "Ok", val |-> SPRITE_START_ADDRESS + sprite * 5]

\* Display::get_sprite_address: Ok(address) or Err(InvalidSprite(sprite)).
get_sprite_address(sprite) ==
    IF sprite > Len(BUILT_IN_SPRITES)
    THEN [res |-> "InvalidSprite", val |-> sprite]
    ELSE [res |-> "Ok", val |-> SPRITE_START_ADDRESS + sprite * 5]

load_sprite_addr(m, vx) ==
    LET sprite == read_v(m.v, vx)
        addr == get_sprite_address(sprite)
    IN  IF addr.res # "Ok"
        THEN Failed(addr.res, m)
        ELSE Done([m EXCEPT !.i = addr.val % U16])

SkipIfEqualAlways(m, vx, byte) == SetPc(m, m.pc + 2)

skip_if_equal(m, vx, byte) ==
    IF read_v(m.v, vx) = byte THEN SetPc(m, m.pc + 2) ELSE Done(m)

skip_if_not_equal(m, vx, byte) ==
    IF read_v(m.v, vx) # byte THEN SetPc(m, m.pc + 2) ELSE Done(m)

skip_if_reg_equal(m, vx, vy) ==
    IF read_v(m.v, vx) = read_v(m.v, vy) THEN SetPc(m, m.pc + 2) ELSE Done(m)

skip_if_reg_not_equal(m, vx, vy) ==
    IF read_v(m.v, vx) # read_v(m.v, vy) THEN SetPc(m, m.pc + 2) ELSE Done(m)

\* The remaining opcodes.  Random's byte from the generator is the operand
\* random_byte.
add_vx_byte(m, vx, val) ==
    [m EXCEPT !.v = write_v(m.v, vx, (read_v(m.v, vx) + val) % U8)]

add_i_vx(m, vx) == [m EXCEPT !.i = (read_v(m.v, vx) + m.i) % U16]

and(m, vx, vy) ==
    [m EXCEPT !.v = write_v(m.v, vx, BitAnd(read_v(m.v, vx), read_v(m.v, vy)))]

or(m, vx, vy) ==
    [m EXCEPT !.v = write_v(m.v, vx,
                            read_v(m.v, vx) + read_v(m.v, vy)
                            - BitAnd(read_v(m.v, vx), read_v(m.v, vy)))]

xor(m, vx, vy) ==
    [m EXCEPT !.v = write_v(m.v, vx, BitXor(read_v(m.v, vx), read_v(m.v, vy)))]

load_register(m, vx, vy) == [m EXCEPT !.v = write_v(m.v, vx, read_v(m.v, vy))]

random(m, vx, byte, random_byte) ==
    [m EXCEPT !.v = write_v(m.v, vx, BitAnd(random_byte, byte))]

\* jump(read_v(0) as u16 + addr): a u16 addition.
jump_v0(m, addr) == SetPc(m, read_v(m.v, 0) + addr)

execute(m, op) ==
    CASE op.name = "AddByte" -> Done(add_vx_byte(m, op.a, op.b))
      [] op.name = "AddI" -> Done(add_i_vx(m, op.a))
      [] op.name = "AddReg" -> Done(add_reg(m, op.a, op.b))
      [] op.name = "And" -> Done(and(m, op.a, op.b))
      [] op.name = "Call" -> call(m, op.a)
      [] op.name = "ClearDisplay" -> Done(clear_display(m))
      [] op.name = "Draw" -> draw(m, op.a, op.b, op.c)
      [] op.name = "Jump" -> Done(jump(m, op.a))
      [] op.name = "JumpV0" -> jump_v0(m, op.a)
      [] op.name = "LoadByte" -> Done(load_byte(m, op.a, op.b))
      [] op.name = "LoadDelayTimer" -> Done(load_delay_timer(m, op.a))
      [] op.name = "LoadReg" -> Done(load_register(m, op.a, op.b))
      [] op.name = "LoadSpriteAddr" -> load_sprite_addr(m, op.a)
      [] op.name = "Or" -> Done(or(m, op.a, op.b))
      [] op.name = "Random" -> Done(random(m, op.a, op.b, op.c))
      [] op.name = "RegDump" -> reg_dump(m, op.a)
      [] op.name = "RegLoad" -> reg_load(m, op.a)
      [] op.name = "Return" -> return_from(m)
      [] op.name = "SetDelayTimer" -> Done(set_delay_timer(m, op.a))
      [] op.name = "SetIndex" -> Done(set_index(m, op.a))
      [] op.name = "SetSoundTimer" -> Done(set_sound_timer(m, op.a))
      [] op.name = "ShiftLeft" -> Done(shift_left(m, op.a))
      [] op.name = "ShiftRight" -> Done(shift_right(m, op.a))
      [] op.name = "SkipIfEqual" -> skip_if_equal(m, op.a, op.b)
      [] op.name = "SkipIfKeyNotPressed" -> skip_if_not_pressed(m, op.a)
      [] op.name = "SkipIfKeyPressed" -> skip_if_pressed(m, op.a)
      [] op.name = "SkipIfNotEqual" -> skip_if_not_equal(m, op.a, op.b)
      [] op.name = "SkipIfRegEqual" -> skip_if_reg_equal(m, op.a, op.b)
      [] op.name = "SkipIfRegNotEqual" -> skip_if_reg_not_equal(m, op.a, op.b)
      [] op.name = "StoreBCD" -> store_bcd(m, op.a)
      [] op.name = "Sub" -> Done(sub(m, op.a, op.b))
      [] op.name = "SubN" -> Done(subn(m, op.a, op.b))
      [] op.name = "SysAddr" -> Done(m)
      [] op.name = "Undefined" -> Failed("InvalidOpcode", m)
      [] op.name = "WaitForKey" -> wait_for_key(m, op.a)
      [] op.name = "Xor" -> Done(xor(m, op.a, op.b))

Front(seq) == SubSeq(seq, 1, Len(seq) - 1)

Execute(op) ==
    /\ ~panicked
    /\ LET r == execute(Machine, op) IN
         /\ memory' = r.m.memory
         /\ v' = r.m.v
         /\ i' = r.m.i
         /\ pc' = r.m.pc
         /\ stack' = r.m.stack
         /\ sp' = r.m.sp
         /\ delay_timer' = r.m.delay_timer
         /\ sound_timer' = r.m.sound_timer
         /\ buffer' = r.m.buffer
         /\ key' = r.m.key
         /\ panicked' = (r.res = "panic")
         /\ last' = Invocation(op.name, op.a, op.b, op.c, <<>>, r.res, 0)
         /\ calls' = IF op.name = "Call" /\ r.res = "Ok" THEN Append(calls, pc)
                     ELSE IF op.name = "Return" /\ r.res = "Ok" THEN Front(calls)
                     ELSE calls
    /\ pre' = Snapshot
    /\ timer_log' =
          IF op.name = "SetDelayTimer"
          THEN [timer_log EXCEPT !.delay_set = delay_timer', !.delay_ticks = 0]
          ELSE IF op.name = "SetSoundTimer"
          THEN [timer_log EXCEPT !.sound_set = sound_timer', !.sound_ticks = 0]
          ELSE timer_log
    /\ steps' = steps + 1
    /\ UNCHANGED <<overflow_checks, decoded, pushed, popped>>

----------------------------------------------------------------------------
(* The arithmetic opcodes.  A run starts from a machine whose V0, V1 and   *)
(* VF hold any of ByteSamples (as LoadByte leaves them) and executes       *)
(* opcodes on the registers of RegSamples.                                 *)

MaxAluSteps == 1

ByteSamples == {0, 1, 15, 16, 128, 255}
RegSamples == {0, 1, 15}

AluOps ==
    { Op(name, x, y, 0) : name \in {"AddReg", "Sub", "SubN"},
                          x \in RegSamples, y \in RegSamples }
    \cup { Op(name, x, 0, 0) : name \in {"ShiftLeft", "ShiftRight"},
                               x \in RegSamples }

AluInit ==
    \E b0 \in ByteSamples, b1 \in ByteSamples, bf \in ByteSamples :
        StartWith([Registers_new EXCEPT ![0] = b0, ![1] = b1, ![15] = bf],
                  PROGRAM_START_ADDRESS, Stack_new, 0)

AluNext == steps < MaxAluSteps /\ \E op \in AluOps : Execute(op)

SpecAlu == AluInit /\ [][AluNext]_vars

\* The flag each arithmetic opcode defines, from the operand values vx and vy.
Flag(name, vx, vy) ==
    CASE name = "AddReg" -> IF vx + vy > 255 THEN 1 ELSE 0
      [] name = "Sub" -> IF vx >= vy THEN 1 ELSE 0
      [] name = "SubN" -> IF vy >= vx THEN 1 ELSE 0
      [] name = "ShiftLeft" -> (vx \div 128) % 2
      [] name = "ShiftRight" -> vx % 2

\* C6: for all register indices x, y (x != 0xF) and all byte values,
\* AddReg(x, y) leaves Vx = (Vx + Vy) mod 256 and VF = 1 if Vx + Vy > 255,
\* else VF = 0.
C6_AddReg ==
    (last.op = "AddReg" /\ last.a # 15)
    => /\ v[last.a] = (pre.v[last.a] + pre.v[last.b]) % 256
       /\ v[15] = IF pre.v[last.a] + pre.v[last.b] > 255 THEN 1 ELSE 0

\* C6 witness: AddReg(x, y), x != 0xF, carried out of bit 7.
C6_Witness ==
    /\ last.op = "AddReg"
    /\ last.a # 15
    /\ pre.v[last.a] + pre.v[last.b] > 255
    /\ v[15] = 1
    /\ v[last.a] = pre.v[last.a] + pre.v[last.b] - 256

\* C7: for AddReg, Sub, SubN, ShiftLeft and ShiftRight, VF after the opcode
\* always holds the flag (0 or 1) computed from the operand values read
\* before any write, even when VF is the destination register (x = 0xF) or
\* a source register (y = 0xF); the arithmetic result never survives in VF.
C7_FlagWrittenLast ==
    (last.op \in {"AddReg", "Sub", "SubN", "ShiftLeft", "ShiftRight"})
    => /\ v[15] \in {0, 1}
       /\ v[15] = Flag(last.op, pre.v[last.a], pre.v[last.b])

\* C7 witness: Sub(0xF, y) whose difference is neither 0 nor 1 left the
\* flag, not the difference, in VF.
C7_Witness ==
    /\ last.op = "Sub"
    /\ last.a = 15
    /\ (pre.v[15] - pre.v[last.b] + 256) % 256 > 1
    /\ v[15] = 1

\* C8 as stated, for every x: Sub(x, y) leaves Vx = (Vx - Vy) mod 256 with
\* VF = 1 iff Vx >= Vy and VF = 0 iff Vx < Vy; SubN(x, y) leaves
\* Vx = (Vy - Vx) mod 256 with VF = 1 iff Vy >= Vx and VF = 0 otherwise.
C8_Original ==
    /\ (last.op = "Sub")
       => /\ v[last.a] = (pre.v[last.a] - pre.v[last.b] + 256) % 256
          /\ v[15] = IF pre.v[last.a] >= pre.v[last.b] THEN 1 ELSE 0
    /\ (last.op = "SubN")
       => /\ v[last.a] = (pre.v[last.b] - pre.v[last.a] + 256) % 256
          /\ v[15] = IF pre.v[last.b] >= pre.v[last.a] THEN 1 ELSE 0

\* C8, amended: the flag is as stated for every x; the difference is left in
\* Vx for every x other than 0xF (with x = 0xF the flag overwrites it).
C8_SubSubN ==
    /\ (last.op = "Sub")
       => /\ last.a # 15
             => v[last.a] = (pre.v[last.a] - pre.v[last.b] + 256) % 256
          /\ v[15] = IF pre.v[last.a] >= pre.v[last.b] THEN 1 ELSE 0
    /\ (last.op = "SubN")
       => /\ last.a # 15
             => v[last.a] = (pre.v[last.b] - pre.v[last.a] + 256) % 256
          /\ v[15] = IF pre.v[last.b] >= pre.v[last.a] THEN 1 ELSE 0

\* C8 witness: SubN(x, y), x != 0xF, with Vy < Vx borrowed and wrapped.
C8_Witness ==
    /\ last.op = "SubN"
    /\ last.a # 15
    /\ pre.v[last.b] < pre.v[last.a]
    /\ v[15] = 0
    /\ v[last.a] = pre.v[last.b] - pre.v[last.a] + 256

\* C9 as stated, for every x: ShiftRight(x) leaves Vx = old Vx div 2 and
\* VF = bit 0 of the old Vx; ShiftLeft(x) leaves Vx = (old Vx * 2) mod 256
\* and VF = bit 7 of the old Vx.
C9_Original ==
    /\ (last.op = "ShiftRight")
       => /\ v[last.a] = pre.v[last.a] \div 2
          /\ v[15] = pre.v[last.a] % 2
    /\ (last.op = "ShiftLeft")
       => /\ v[last.a] = (pre.v[last.a] * 2) % 256
          /\ v[15] = (pre.v[last.a] \div 128) % 2

\* C9, amended: the flag is as stated for every x, taken from the value
\* before it is overwritten; the shifted value is left in Vx for every x
\* other than 0xF (with x = 0xF the flag overwrites it).
C9_Shifts ==
    /\ (last.op = "ShiftRight")
       => /\ last.a # 15 => v[last.a] = pre.v[last.a] \div 2
          /\ v[15] = pre.v[last.a] % 2
    /\ (last.op = "ShiftLeft")
       => /\ last.a # 15 => v[last.a] = (pre.v[last.a] * 2) % 256
          /\ v[15] = (pre.v[last.a] \div 128) % 2

\* C9 witness: ShiftRight(x), x != 0xF, of a value whose bit 0 and bit 1
\* differ, so the flag is not the low bit of the shifted value.
C9_Witness ==
    /\ last.op = "ShiftRight"
    /\ last.a # 15
    /\ pre.v[last.a] = 1
    /\ v[last.a] = 0
    /\ v[15] = 1

----------------------------------------------------------------------------
(* Subroutine calls.  A run starts with PC at the program start and a      *)
(* stack that earlier Calls have left 0, 1, 15 or 16 deep (slot k holding  *)
(* the return address 0x200 + 2k), and executes Call, Return and Jump.     *)

MaxCallSteps == 4

CallDepths == {0, 1, STACK_SIZE - 1, STACK_SIZE}
CallTargets == {512, 768, 4095}
JumpTargets == {678}

CallOps ==
    { Op("Call", addr, 0, 0) : addr \in CallTargets }
    \cup { Op("Jump", addr, 0, 0) : addr \in JumpTargets }
    \cup { Op("Return", 0, 0, 0) }

CallInit ==
    \E depth \in CallDepths :
        StartWith(Registers_new, PROGRAM_START_ADDRESS,
                  [k \in 0 .. STACK_SIZE - 1 |-> IF k < depth THEN 512 + 2 * k ELSE 0],
                  depth)

CallNext == steps < MaxCallSteps /\ \E op \in CallOps : Execute(op)

SpecCall == CallInit /\ [][CallNext]_vars

\* C4: executing Call(addr) when the stack is full returns
\* StackError::StackOverflow and leaves PC unchanged; executing Return when
\* the stack is empty returns StackError::StackUnderflow and leaves PC
\* unchanged.
C4_StackErrorKeepsPc ==
    /\ (last.op = "Call" /\ pre.sp = STACK_SIZE)
       => (last.res = "StackOverflow" /\ pc = pre.pc)
    /\ (last.op = "Return" /\ pre.sp = 0)
       => (last.res = "StackUnderflow" /\ pc = pre.pc)

\* C4 witness: a Call to another address was refused on the full stack.
C4_Witness ==
    /\ last.op = "Call"
    /\ last.res = "StackOverflow"
    /\ pre.sp = STACK_SIZE
    /\ last.a # pre.pc
    /\ pc = pre.pc

\* C4 witness, second case: a Return was refused on the empty stack after a
\* Jump had moved PC.
C4_WitnessUnderflow ==
    /\ last.op = "Return"
    /\ last.res = "StackUnderflow"
    /\ pc \in JumpTargets

\* C5: a successful Call(addr) pushes the PC value held before the call and
\* sets PC = addr; a successful Return sets PC to the popped value.  Hence
\* Call(addr) immediately followed by Return restores both PC and the stack
\* depth to their pre-Call values, and properly nested Calls return in
\* reverse order (each Return goes to the latest Call not yet returned from).
C5_CallReturn ==
    [][/\ (last'.op = "Call" /\ last'.res = "Ok")
          => (sp' = sp + 1 /\ stack'[sp] = pc /\ pc' = last'.a)
       /\ (last'.op = "Return" /\ last'.res = "Ok")
          => (sp' = sp - 1 /\ pc' = stack[sp - 1])
       /\ (last.op = "Call" /\ last.res = "Ok" /\ last'.op = "Return")
          => (last'.res = "Ok" /\ pc' = pre.pc /\ sp' = pre.sp)
       /\ (last'.op = "Return" /\ last'.res = "Ok")
          => (calls # <<>> /\ pc' = calls[Len(calls)])
      ]_vars

\* C5 witness: two nested Calls from different addresses were followed by
\* two Returns, the second one back to where the first Call was made.
C5_Witness ==
    /\ last.op = "Return"
    /\ last.res = "Ok"
    /\ steps = 4
    /\ sp = 0
    /\ pc = PROGRAM_START_ADDRESS
    /\ stack[0] = PROGRAM_START_ADDRESS
    /\ stack[1] \in CallTargets \ {PROGRAM_START_ADDRESS}

----------------------------------------------------------------------------
(* The display on its own.  A run starts from the blank display or from    *)
(* one on which the glyph of 0 has been drawn at row 1, column 2, and      *)
(* calls draw_sprite and clear.                                            *)

MaxDraws == 2

Glyph0 == <<240, 144, 144, 144, 240>>

SpriteSamples ==
    { <<0, 0>>,
      <<165>>,
      Glyph0,
      [k \in 1 .. 15 |-> IF k % 2 = 1 THEN 255 ELSE 129] }

RowSamples == {0, 62}
ColSamples == {0, 4, 124, 130}

DisplayDraw(row, col, sprite_value) ==
    /\ ~panicked
    /\ LET r == draw_sprite(buffer, row, col, sprite_value) IN
         /\ buffer' = r.buffer
         /\ panicked' = r.panic
         /\ last' = Invocation("draw_sprite", row, col, 0, sprite_value,
                               IF r.panic THEN "panic" ELSE "Ok",
                               IF r.erased THEN 1 ELSE 0)
    /\ pre' = Snapshot
    /\ steps' = steps + 1
    /\ UNCHANGED <<timer_log, overflow_checks, decoded, memory, v, i, pc, stack, sp,
                   delay_timer, sound_timer, key, calls, pushed, popped>>

DisplayClear ==
    /\ ~panicked
    /\ buffer' = Display_clear(buffer)
    /\ last' = Invocation("clear", 0, 0, 0, <<>>, "Ok", 0)
    /\ pre' = Snapshot
    /\ steps' = steps + 1
    /\ UNCHANGED <<timer_log, overflow_checks, decoded, memory, v, i, pc, stack, sp,
                   delay_timer, sound_timer, key, panicked, calls, pushed,
                   popped>>

DisplayInit ==
    /\ Chip8_new
    \/ /\ memory = Memory_new
       /\ v = Registers_new
       /\ i = 0
       /\ pc = 0
       /\ stack = Stack_new
       /\ sp = 0
       /\ delay_timer = 0
       /\ sound_timer = 0
       /\ buffer = draw_sprite(Display_new, 1, 2, Glyph0).buffer
       /\ key = NoKey
       /\ panicked = FALSE
       /\ overflow_checks \in BOOLEAN
       /\ last = NoInvocation
       /\ decoded = NoDecode
       /\ pre = Snapshot
       /\ calls = <<>>
       /\ pushed = <<>>
       /\ popped = <<>>
       /\ steps = 0
       /\ timer_log = NoTimerLog

DisplayNext ==
    \/ \E row \in RowSamples, col \in ColSamples, sprite_value \in SpriteSamples :
          steps < MaxDraws /\ DisplayDraw(row, col, sprite_value)
    \/ steps < MaxDraws /\ DisplayClear

SpecDisplay == DisplayInit /\ [][DisplayNext]_vars

\* The pixels a sprite sets when drawn at (row, col): bit 7 - k of its j-th
\* byte is the pixel in row (row + j - 1) mod height, column (col + k) mod width.
Pixels(row, col, sprite_value) ==
    { <<(row + (j - 1)) % DISPLAY_HEIGHT, (col + k) % DISPLAY_WIDTH>> :
        <<j, k>> \in { q \in (1 .. Len(sprite_value)) \X (0 .. 7) :
                         Bit(sprite_value[q[1]], 7 - q[2]) = 1 } }

SameDrawAgain ==
    /\ last.op = "draw_sprite"
    /\ last'.op = "draw_sprite"
    /\ last'.a = last.a
    /\ last'.b = last.b
    /\ last'.spr = last.spr
    /\ Len(last.spr) <= 15

C10_WitnessDisjoint ==
    /\ last.op = "draw_sprite"
    /\ last.res = "Ok"
    /\ last.val = 0
    /\ steps = 2
    /\ last.spr = Glyph0
    /\ pre.buffer # Display_new
    /\ buffer # pre.buffer
    /\ \E row \in RowSamples, col \in ColSamples :
          /\ <<row, col>> # <<last.a, last.b>>
          /\ pre.buffer = draw_sprite(Display_new, row, col, <<165>>).buffer
          /\ Pixels(row, col, <<165>>) \cap Pixels(last.a, last.b, Glyph0) = {}
          /\ \A rr \in 0 .. BUFFER_HEIGHT - 1, cc \in 0 .. BUFFER_WIDTH - 1 :
                buffer[rr][cc] >= pre.buffer[rr][cc]

\* Whether the pixel in row p[1], column p[2] of the framebuffer buf is set.
PixelSet(buf, p) == Bit(buf[p[1]][p[2] \div 8], 7 - (p[2] % 8)) = 1

\* The footprint of an n-byte sprite drawn at (row, col): in each of its n
\* rows, the pixels of the storage byte col falls in and of the next one.
Footprint(row, col, n) ==
    { <<(row + j) % BUFFER_HEIGHT, 8 * cb + k>> :
        <<j, cb, k>> \in (0 .. n - 1)
                         \X {col \div 8, ((col \div 8) + 1) % BUFFER_WIDTH}
                         \X (0 .. 7) }

\* C11: draw_sprite returns true if and only if at least one pixel of the
\* sprite's footprint (any row, either of the two storage bytes a sprite byte
\* straddles) was set before the draw and is unset after it; an erasure in an
\* early row is not lost when later rows erase nothing.
C11_ErasedFlag ==
    [][(last'.op = "draw_sprite" /\ last'.res = "Ok")
       => ((last'.val = 1)
           <=> \E p \in Footprint(last'.a, last'.b, Len(last'.spr)) :
                  PixelSet(buffer, p) /\ ~PixelSet(buffer', p))]_vars

\* C11 witness: a 15-byte sprite erased pixels of the glyph in its fourth to
\* eighth rows, none in its last seven rows, and the draw returned true.
C11_Witness ==
    /\ last.op = "draw_sprite"
    /\ last.res = "Ok"
    /\ Len(last.spr) = 15
    /\ last.val = 1
    /\ \E p \in Footprint(last.a + 3, last.b, 5) :
          PixelSet(pre.buffer, p) /\ ~PixelSet(buffer, p)
    /\ \A p \in Footprint(last.a + 8, last.b, 7) :
          ~(PixelSet(pre.buffer, p) /\ ~PixelSet(buffer, p))

\* C11 witness, second case: the only erasure was in the second storage byte
\* of a row (the byte a sprite byte drawn at an unaligned column spills into).
C11_WitnessSecondByte ==
    /\ last.op = "draw_sprite"
    /\ last.res = "Ok"
    /\ last.val = 1
    /\ last.b % 8 # 0
    /\ \A p \in Footprint(last.a, last.b, Len(last.spr)) :
          (PixelSet(pre.buffer, p) /\ ~PixelSet(buffer, p))
          => p[2] \div 8 = ((last.b \div 8) + 1) % BUFFER_WIDTH

----------------------------------------------------------------------------
(* The Draw opcode.  A run starts from the booted machine (the font table  *)
(* in memory) after LoadByte and SetIndex have put a column in V0, a row   *)
(* in V1, 0 or 1 in VF and a sprite address in I, with the display blank   *)
(* or holding the glyph of 0 at row 1, column 2, and executes Draw opcodes.*)

MaxDrawSteps == 2

DrawCols == {0, 62, 130}
DrawRowValues == {1, 62}
DrawIndexes == {0, 4091, 65535}
DrawLengths == {0, 5, 15}

DrawOps ==
    { Op("Draw", x, 1, n) : x \in {0, 15}, n \in DrawLengths }

DrawInit ==
    /\ overflow_checks \in BOOLEAN
    /\ \E v0 \in DrawCols, v1 \in DrawRowValues, vf \in {0, 1},
          index \in DrawIndexes,
          shown \in {Display_new, draw_sprite(Display_new, 1, 2, Glyph0).buffer} :
          LET m == boot([memory |-> Memory_new,
                         v |-> [Registers_new EXCEPT ![0] = v0, ![1] = v1, ![15] = vf],
                         i |-> index, pc |-> 0, stack |-> Stack_new, sp |-> 0,
                         delay_timer |-> 0, sound_timer |-> 0,
                         buffer |-> shown, key |-> NoKey,
                         overflow_checks |-> overflow_checks]).m
          IN  /\ memory = m.memory
              /\ v = m.v
              /\ i = m.i
              /\ pc = m.pc
              /\ stack = m.stack
              /\ sp = m.sp
              /\ delay_timer = m.delay_timer
              /\ sound_timer = m.sound_timer
              /\ buffer = m.buffer
              /\ key = m.key
    /\ panicked = FALSE
    /\ last = NoInvocation
    /\ decoded = NoDecode
    /\ pre = Snapshot
    /\ calls = <<>>
    /\ pushed = <<>>
    /\ popped = <<>>
    /\ steps = 0
    /\ timer_log = NoTimerLog

DrawNext == \E op \in DrawOps : steps < MaxDrawSteps /\ Execute(op)

SpecDraw == DrawInit /\ [][DrawNext]_vars

\* C12 as stated: for every row and every col a Draw opcode can supply (any
\* 8-bit register values, also col >= the display width) the draw completes
\* without running off the framebuffer, each sprite byte composed into row
\* (row + offset) mod height starting at bit-column col mod width.
C12_DrawInBounds ==
    [][last'.op = "Draw"
       => /\ last'.res # "panic"
          /\ last'.res = "Ok"
             => \A p \in (0 .. BUFFER_HEIGHT - 1) \X (0 .. DISPLAY_WIDTH - 1) :
                   PixelSet(buffer', p)
                   = (PixelSet(buffer, p)
                      # (p \in Pixels(v[last'.b], v[last'.a],
                                      [k \in 1 .. last'.c |-> memory[i + k - 1]])))]_vars

\* C14: when the Draw opcode fails because one of the n sprite bytes at
\* I..I+n lies outside memory, it returns MemoryError::AddressOutOfBounds
\* and neither the framebuffer nor VF has been modified (nor any register).
C14_DrawErrorAtomic ==
    [][last'.op = "Draw"
       => /\ (\E offset \in 0 .. last'.c - 1 : i + offset >= MEMORY_SIZE)
             <=> last'.res = "AddressOutOfBounds"
          /\ last'.res = "AddressOutOfBounds"
             => (buffer' = buffer /\ v' = v /\ ~panicked')]_vars

\* C14 witness: the second Draw of a run, from an I below the end of memory,
\* failed on a display that was not blank, with VF = 1 before and after.
C14_Witness ==
    /\ last.op = "Draw"
    /\ last.res = "AddressOutOfBounds"
    /\ steps = 2
    /\ pre.i < MEMORY_SIZE
    /\ pre.v[15] = 1
    /\ v[15] = 1
    /\ buffer # Display_new

\* C15: a successful Draw(x, y, n) reads exactly the n bytes at I..I+n,
\* composes them into the display at row Vy and column Vx (the display's
\* draw_sprite of those bytes) and sets VF to 1 if the draw erased a pixel,
\* else to 0, also when VF was set before; I and memory are unchanged.
C15_Draw ==
    [][(last'.op = "Draw" /\ last'.res = "Ok")
       => LET sprite == [k \in 1 .. last'.c |-> memory[i + k - 1]]
              erased == \E p \in Footprint(v[last'.b], v[last'.a], last'.c) :
                           PixelSet(buffer, p) /\ ~PixelSet(buffer', p)
          IN  /\ buffer' = draw_sprite(buffer, v[last'.b], v[last'.a], sprite).buffer
              /\ \A r \in 0 .. BUFFER_HEIGHT - 1 :
                    (\A j \in 0 .. last'.c - 1 : r # (v[last'.b] + j) % BUFFER_HEIGHT)
                    => buffer'[r] = buffer[r]
              /\ v' = [v EXCEPT ![15] = IF erased THEN 1 ELSE 0]
              /\ i' = i
              /\ memory' = memory]_vars

\* C15 witness: a 5-byte Draw of the glyph of 0 changed the display, erased
\* nothing and reset VF from 1 to 0.
C15_Witness ==
    /\ last.op = "Draw"
    /\ last.res = "Ok"
    /\ last.c = 5
    /\ pre.i = 0
    /\ pre.v[15] = 1
    /\ v[15] = 0
    /\ buffer # pre.buffer

\* C15 witness, second case: a Draw erased pixels and set VF from 0 to 1.
C15_WitnessErased ==
    /\ last.op = "Draw"
    /\ last.res = "Ok"
    /\ pre.v[15] = 0
    /\ v[15] = 1

----------------------------------------------------------------------------
(* One sprite byte at a time: draw_sprite_row called on its own, on the    *)
(* displays of DisplayInit, at columns in the first and the last storage   *)
(* byte of a row.                                                          *)

MaxRowDraws == 2

RowDrawRows == {1, 63}
RowDrawCols == {4, 121, 124, 127}
RowDrawValues == {129, 165, 255}

DisplayDrawRow(row, col, value) ==
    /\ ~panicked
    /\ LET r == draw_sprite_row(buffer, row, col, value) IN
         /\ buffer' = r.buffer
         /\ panicked' = r.panic
         /\ last' = Invocation("draw_sprite_row", row, col, value, <<>>,
                               IF r.panic THEN "panic" ELSE "Ok",
                               IF r.erased THEN 1 ELSE 0)
    /\ pre' = Snapshot
    /\ steps' = steps + 1
    /\ UNCHANGED <<timer_log, overflow_checks, decoded, memory, v, i, pc, stack, sp,
                   delay_timer, sound_timer, key, calls, pushed, popped>>

RowInit == DisplayInit

RowNext ==
    \E row \in RowDrawRows, col \in RowDrawCols, value \in RowDrawValues :
        steps < MaxRowDraws /\ DisplayDrawRow(row, col, value)

SpecRow == RowInit /\ [][RowNext]_vars

\* C13 as stated: a sprite byte drawn at a column with col mod 8 = s, s != 0,
\* in the last storage byte of a row has its high 8 - s bits XORed into the low bits
\* of that byte and its low s bits into the high bits of the first storage
\* byte of the same row: each of its 8 bits toggles exactly the pixel
\* (col + k) mod width of that row, and no other pixel changes.
C13_RightEdgeSplit ==
    [][(/\ last'.op = "draw_sprite_row"
        /\ last'.b % 8 # 0
        /\ last'.b \div 8 = BUFFER_WIDTH - 1)
       => LET row == last'.a % BUFFER_HEIGHT
              s == last'.b % 8
          IN  /\ last'.res = "Ok"
              /\ \A k \in 0 .. 7 :
                    PixelSet(buffer', <<row, (last'.b + k) % DISPLAY_WIDTH>>)
                    = (PixelSet(buffer, <<row, (last'.b + k) % DISPLAY_WIDTH>>)
                       # (Bit(last'.c, 7 - k) = 1))
              /\ buffer'[row][BUFFER_WIDTH - 1] \div (2 ^ (8 - s))
                 = buffer[row][BUFFER_WIDTH - 1] \div (2 ^ (8 - s))
              /\ buffer'[row][0] % (2 ^ (8 - s)) = buffer[row][0] % (2 ^ (8 - s))
              /\ \A r \in 0 .. BUFFER_HEIGHT - 1, c \in 0 .. BUFFER_WIDTH - 1 :
                    (r # row \/ c \notin {0, BUFFER_WIDTH - 1})
                    => buffer'[r][c] = buffer[r][c]]_vars

----------------------------------------------------------------------------
(* The decoder (src/src/chip8/opcodes.rs).  An instruction is its two      *)
(* bytes msb and lsb.                                                      *)

GetAddressRawWord(msb, lsb) ==
    LET addr == ((msb % 16) * 256) + lsb
    IN  IF (addr \div 1024) % 4 # 0
        THEN [res |-> "InvalidAddress", val |-> (msb * 256) + lsb]
        ELSE [res |-> "Ok", val |-> addr]

\* addr = ((msb & 0x0F) << 8) | lsb; an error if 0xC00 & addr != 0.
get_address(msb, lsb) ==
    LET addr == ((msb % 16) * 256) + lsb
    IN  IF (addr \div 1024) % 4 # 0
        THEN [res |-> "InvalidAddress", val |-> addr]
        ELSE [res |-> "Ok", val |-> addr]

get_code(msb, lsb) == (msb \div 16) % 16

get_n(msb, lsb) == lsb % 16

GetXWholeByte(msb, lsb) == msb

get_x(msb, lsb) == msb % 16

get_y(msb, lsb) == lsb \div 16

get_kk(msb, lsb) == lsb

get_byte(msb, lsb) == lsb

Decoded(op) == [res |-> "Ok", op |-> op, val |-> 0]

DecodeError(err, val) == [res |-> err, op |-> Op("none", 0, 0, 0), val |-> val]

\* Ok(make(get_address()?)): the address error is passed on.
WithAddress(name, msb, lsb) ==
    IF get_address(msb, lsb).res = "Ok"
    THEN Decoded(Op(name, get_address(msb, lsb).val, 0, 0))
    ELSE DecodeError(get_address(msb, lsb).res, get_address(msb, lsb).val)

\* Opcode::from_bytes: the first arm of the match that fits (code, x, y, n).
from_bytes(msb, lsb) ==
    LET code == get_code(msb, lsb)
        x == get_x(msb, lsb)
        y == get_y(msb, lsb)
        n == get_n(msb, lsb)
        kk == get_kk(msb, lsb)
        byte == get_byte(msb, lsb)
    IN  CASE code = 0 /\ x = 0 /\ y = 14 /\ n = 0 -> Decoded(Op("ClearDisplay", 0, 0, 0))
          [] code = 0 /\ x = 0 /\ y = 14 /\ n = 14 -> Decoded(Op("Return", 0, 0, 0))
          [] code = 0 /\ ~(x = 0 /\ y = 14 /\ n \in {0, 14}) -> WithAddress("SysAddr", msb, lsb)
          [] code = 1 -> WithAddress("Jump", msb, lsb)
          [] code = 2 -> WithAddress("Call", msb, lsb)
          [] code = 3 -> Decoded(Op("SkipIfEqual", x, kk, 0))
          [] code = 4 -> Decoded(Op("SkipIfNotEqual", x, kk, 0))
          [] code = 5 -> Decoded(Op("SkipIfRegEqual", x, y, 0))
          [] code = 6 -> Decoded(Op("LoadByte", x, byte, 0))
          [] code = 7 -> Decoded(Op("AddByte", x, byte, 0))
          [] code = 8 /\ n = 0 -> Decoded(Op("LoadReg", x, y, 0))
          [] code = 8 /\ n = 1 -> Decoded(Op("Or", x, y, 0))
          [] code = 8 /\ n = 2 -> Decoded(Op("And", x, y, 0))
          [] code = 8 /\ n = 3 -> Decoded(Op("Xor", x, y, 0))
          [] code = 8 /\ n = 4 -> Decoded(Op("AddReg", x, y, 0))
          [] code = 8 /\ n = 5 -> Decoded(Op("Sub", x, y, 0))
          [] code = 8 /\ n = 6 -> Decoded(Op("ShiftRight", x, 0, 0))
          [] code = 8 /\ n = 7 -> Decoded(Op("SubN", x, y, 0))
          [] code = 8 /\ n = 14 -> Decoded(Op("ShiftLeft", x, 0, 0))
          [] code = 9 /\ n = 0 -> Decoded(Op("SkipIfRegNotEqual", x, y, 0))
          [] code = 10 -> WithAddress("SetIndex", msb, lsb)
          [] code = 11 -> WithAddress("JumpV0", msb, lsb)
          [] code = 12 -> Decoded(Op("Random", x, byte, 0))
          [] code = 13 -> Decoded(Op("Draw", x, y, n))
          [] code = 14 /\ y = 9 /\ n = 14 -> Decoded(Op("SkipIfKeyPressed", x, 0, 0))
          [] code = 14 /\ y = 10 /\ n = 1 -> Decoded(Op("SkipIfKeyNotPressed", x, 0, 0))
          [] code = 15 /\ y = 0 /\ n = 7 -> Decoded(Op("LoadDelayTimer", x, 0, 0))
          [] code = 15 /\ y = 0 /\ n = 10 -> Decoded(Op("WaitForKey", x, 0, 0))
          [] code = 15 /\ y = 1 /\ n = 5 -> Decoded(Op("SetDelayTimer", x, 0, 0))
          [] code = 15 /\ y = 1 /\ n = 8 -> Decoded(Op("SetSoundTimer", x, 0, 0))
          [] code = 15 /\ y = 1 /\ n = 14 -> Decoded(Op("AddI", x, 0, 0))
          [] code = 15 /\ y = 2 /\ n = 9 -> Decoded(Op("LoadSpriteAddr", x, 0, 0))
          [] code = 15 /\ y = 3 /\ n = 3 -> Decoded(Op("StoreBCD", x, 0, 0))
          [] code = 15 /\ y = 5 /\ n = 5 -> Decoded(Op("RegDump", x, 0, 0))
          [] code = 15 /\ y = 6 /\ n = 5 -> Decoded(Op("RegLoad", x, 0, 0))
          [] OTHER -> DecodeError("InvalidOpcode", (msb * 256) + lsb)

----------------------------------------------------------------------------
(* The decoder on its own: a run decodes one 16-bit word.  The first byte  *)
(* is any opcode family with an x that has none, one or both of the bits   *)
(* 10 and 11 of an address; the second byte is every n with y = 1 and the  *)
(* second bytes of the EX.. and FX.. instructions, of 00E0 and 00EE, and   *)
(* others that belong to no instruction.                                   *)

MsbSamples == { (code * 16) + x : code \in 0 .. 15, x \in {0, 1, 3, 4, 8, 15} }

LsbSamples ==
    (16 .. 31) \cup {0, 7, 10, 35, 41, 51, 80, 85, 101, 158, 161, 188, 224, 238, 255}

FromBytes(msb, lsb) ==
    /\ ~panicked
    /\ LET r == from_bytes(msb, lsb) IN
         /\ decoded' = r
         /\ last' = Invocation("from_bytes", msb, lsb, 0, <<>>, r.res, r.val)
    /\ pre' = Snapshot
    /\ steps' = steps + 1
    /\ UNCHANGED <<timer_log, overflow_checks, memory, v, i, pc, stack, sp, delay_timer,
                   sound_timer, buffer, key, panicked, calls, pushed, popped>>

DecodeInit == Chip8_new

DecodeNext ==
    \E msb \in MsbSamples, lsb \in LsbSamples : last.op = "new" /\ FromBytes(msb, lsb)

SpecDecode == DecodeInit /\ [][DecodeNext]_vars

\* The instruction table: the instruction whose canonical encoding the word
\* msb:lsb is, or the opcode named "none" when the word is none of 00E0,
\* 00EE, 0NNN, 1NNN, 2NNN, 3XNN, 4XNN, 5XY0, 6XNN, 7XNN, 8XY0-8XY7, 8XYE,
\* 9XY0, ANNN, BNNN, CXNN, DXYN, EX9E, EXA1, FX07, FX0A, FX15, FX18, FX1E,
\* FX29, FX33, FX55, FX65.
InstructionOf(msb, lsb) ==
    LET c == msb \div 16
        x == msb % 16
        y == lsb \div 16
        n == lsb % 16
        nnn == (x * 256) + lsb
        alu == <<"LoadReg", "Or", "And", "Xor", "AddReg", "Sub", "ShiftRight", "SubN">>
        fx == [k \in {7, 10, 21, 24, 30, 41, 51, 85, 101} |->
                 CASE k = 7 -> "LoadDelayTimer" [] k = 10 -> "WaitForKey"
                   [] k = 21 -> "SetDelayTimer" [] k = 24 -> "SetSoundTimer"
                   [] k = 30 -> "AddI" [] k = 41 -> "LoadSpriteAddr"
                   [] k = 51 -> "StoreBCD" [] k = 85 -> "RegDump"
                   [] k = 101 -> "RegLoad"]
    IN  CASE c = 0 /\ nnn = 224 -> Op("ClearDisplay", 0, 0, 0)
          [] c = 0 /\ nnn = 238 -> Op("Return", 0, 0, 0)
          [] c = 0 /\ nnn \notin {224, 238} -> Op("SysAddr", nnn, 0, 0)
          [] c = 1 -> Op("Jump", nnn, 0, 0)
          [] c = 2 -> Op("Call", nnn, 0, 0)
          [] c = 3 -> Op("SkipIfEqual", x, lsb, 0)
          [] c = 4 -> Op("SkipIfNotEqual", x, lsb, 0)
          [] c = 5 /\ n = 0 -> Op("SkipIfRegEqual", x, y, 0)
          [] c = 6 -> Op("LoadByte", x, lsb, 0)
          [] c = 7 -> Op("AddByte", x, lsb, 0)
          [] c = 8 /\ n \in {0, 1, 2, 3, 4, 5, 7} -> Op(alu[n + 1], x, y, 0)
          [] c = 8 /\ n = 6 -> Op("ShiftRight", x, 0, 0)
          [] c = 8 /\ n = 14 -> Op("ShiftLeft", x, 0, 0)
          [] c = 9 /\ n = 0 -> Op("SkipIfRegNotEqual", x, y, 0)
          [] c = 10 -> Op("SetIndex", nnn, 0, 0)
          [] c = 11 -> Op("JumpV0", nnn, 0, 0)
          [] c = 12 -> Op("Random", x, lsb, 0)
          [] c = 13 -> Op("Draw", x, y, n)
          [] c = 14 /\ lsb = 158 -> Op("SkipIfKeyPressed", x, 0, 0)
          [] c = 14 /\ lsb = 161 -> Op("SkipIfKeyNotPressed", x, 0, 0)
          [] c = 15 /\ lsb \in DOMAIN fx -> Op(fx[lsb], x, 0, 0)
          [] OTHER -> Op("none", 0, 0, 0)

\* C16 as stated: every 16-bit word that is not one of the defined encodings
\* decodes to InvalidOpcode carrying the raw word; it is never decoded as
\* some instruction.
C16_UndefinedWords ==
    (last.op = "from_bytes" /\ InstructionOf(last.a, last.b).name = "none")
    => (decoded.res = "InvalidOpcode" /\ decoded.val = (last.a * 256) + last.b)

\* C17 as stated: for every defined instruction and every in-range operand
\* (registers 0..15, immediates 0..255, n 0..15, addresses 0..0xFFF from the
\* low 12 bits), decoding its canonical encoding yields exactly that opcode
\* with those operands.
C17_RoundTrip ==
    (last.op = "from_bytes" /\ InstructionOf(last.a, last.b).name # "none")
    => (decoded.res = "Ok" /\ decoded.op = InstructionOf(last.a, last.b))

----------------------------------------------------------------------------
(* The engine with the key latch.  A run starts from the booted machine    *)
(* (PC at the program start) with a value in V0 and V1, no key pressed;    *)
(* the keypad presses and releases keys (the strings the key map of        *)
(* main.rs produces) and the engine executes opcodes.                      *)

MaxEngineSteps == 2

KeySamples == { <<"0">>, <<"1">>, <<"9">>, <<"a">>, <<"c">>, <<"f">> }
KeyRegSamples == {1, 10, 15, 26}

PressKeyKeepsHeld(m, k) ==
    IF m.key = NoKey THEN [m EXCEPT !.key = Some(k)] ELSE m

press_key(m, k) == [m EXCEPT !.key = Some(k)]

release_key(m) == [m EXCEPT !.key = NoKey]

PressKey(k) ==
    /\ ~panicked
    /\ key' = press_key(Machine, k).key
    /\ last' = Invocation("press_key", 0, 0, 0, k, "Ok", 0)
    /\ pre' = Snapshot
    /\ UNCHANGED <<timer_log, overflow_checks, decoded, memory, v, i, pc, stack, sp,
                   delay_timer, sound_timer, buffer, panicked, calls, pushed,
                   popped, steps>>

ReleaseKey ==
    /\ ~panicked
    /\ key' = release_key(Machine).key
    /\ last' = Invocation("release_key", 0, 0, 0, <<>>, "Ok", 0)
    /\ pre' = Snapshot
    /\ UNCHANGED <<timer_log, overflow_checks, decoded, memory, v, i, pc, stack, sp,
                   delay_timer, sound_timer, buffer, panicked, calls, pushed,
                   popped, steps>>

EngineOps ==
    { Op("WaitForKey", 0, 0, 0), Op("SkipIfKeyPressed", 0, 0, 0),
      Op("SkipIfKeyNotPressed", 0, 0, 0), Op("LoadByte", 0, 15, 0),
      Op("AddReg", 0, 1, 0), Op("SetIndex", 768, 0, 0), Op("RegDump", 1, 0, 0),
      Op("Jump", 768, 0, 0) }

EngineInit ==
    /\ overflow_checks \in BOOLEAN
    /\ \E v0 \in KeyRegSamples :
          LET m == boot([memory |-> Memory_new,
                         v |-> [Registers_new EXCEPT ![0] = v0, ![1] = 1],
                         i |-> 0, pc |-> 0, stack |-> Stack_new, sp |-> 0,
                         delay_timer |-> 0, sound_timer |-> 0,
                         buffer |-> Display_new, key |-> NoKey,
                         overflow_checks |-> overflow_checks]).m
          IN  /\ memory = m.memory
              /\ v = m.v
              /\ i = m.i
              /\ pc = m.pc
              /\ stack = m.stack
              /\ sp = m.sp
              /\ delay_timer = m.delay_timer
              /\ sound_timer = m.sound_timer
              /\ buffer = m.buffer
              /\ key = m.key
    /\ panicked = FALSE
    /\ last = NoInvocation
    /\ decoded = NoDecode
    /\ pre = Snapshot
    /\ calls = <<>>
    /\ pushed = <<>>
    /\ popped = <<>>
    /\ steps = 0
    /\ timer_log = NoTimerLog

EngineNext ==
    \/ \E k \in KeySamples : PressKey(k)
    \/ ReleaseKey
    \/ \E op \in EngineOps : steps < MaxEngineSteps /\ Execute(op)

SpecEngine == EngineInit /\ [][EngineNext]_vars

\* The numeric value of each key of the keypad.
KeyCode ==
    [k \in { <<LowerHexDigits[n]>> : n \in 1 .. 16 } |->
        CHOOSE n \in 0 .. 15 : LowerHexDigits[n + 1] = k[1]]

\* C18: WaitForKey(x) executed with no key pressed leaves PC exactly 2 less
\* than before the execution and Vx unchanged; executed with a key pressed
\* it leaves PC unchanged and sets Vx to the numeric value of the pressed
\* key.
C18_WaitForKey ==
    [][last'.op = "WaitForKey"
       => /\ last'.res = "Ok"
          /\ key = NoKey => (pc' = pc - 2 /\ v' = v)
          /\ key # NoKey
             => (pc' = pc /\ v' = [v EXCEPT ![last'.a] = KeyCode[key[1]]])]_vars

\* C18 witness: WaitForKey was executed twice, first with no key pressed,
\* which moved PC back by 2, then with the key "a" pressed, which left PC
\* there and put 10 in a V0 that held another value.
C18_Witness ==
    /\ last.op = "WaitForKey"
    /\ key = Some(<<"a">>)
    /\ steps = 2
    /\ pc = PROGRAM_START_ADDRESS - 2
    /\ pre.pc = pc
    /\ pre.v[0] # 10
    /\ v[0] = 10

\* C19 as stated: one engine step that executes a non-branching,
\* non-skipping opcode (LoadByte, AddReg, SetIndex, RegDump) leaves PC
\* exactly 2 greater than before the step.
C19_PcAdvances ==
    [][(last'.op \in {"LoadByte", "AddReg", "SetIndex", "RegDump"}
        /\ last'.res = "Ok")
       => pc' = pc + 2]_vars

C20_WitnessOtherKey ==
    /\ last.op = "SkipIfKeyNotPressed"
    /\ key = Some(<<"a">>)
    /\ v[0] = 26
    /\ pc = pre.pc + 2

----------------------------------------------------------------------------
(* The key latch on its own (src/src/chip8/input.rs).  A run presses keys  *)
(* (set_key takes any string: the digits of the key map, upper-case        *)
(* digits, letters that are no digit, the empty string, strings of two and *)
(* three characters), releases them and reads the latch.                   *)

InputKeySamples ==
    { <<LowerHexDigits[d]>> : d \in 1 .. 16 }
    \cup { <<"A">>, <<"F">>, <<"G">>, <<"g">>, <<>>, <<"+">>, <<"1", "0">>,
           <<"0", "a">>, <<"f", "f">>, <<"+", "a">>, <<"1", "0", "0">>,
           <<"-", "1">> }

get_key(k) == k

\* Input::get_key_u8 called on the latch: last.spr is the latch it read,
\* last.val the Option inside Ok (<<>> for None, <<n>> for Some(n)) or the
\* string inside InvalidKey.
GetKeyU8 ==
    /\ ~panicked
    /\ LET r == get_key_u8(key) IN
         last' = Invocation("get_key_u8", 0, 0, 0, key, r.res,
                            IF r.res # "Ok" THEN r.err
                            ELSE IF r.some THEN <<r.val>> ELSE <<>>)
    /\ pre' = Snapshot
    /\ UNCHANGED <<timer_log, overflow_checks, decoded, memory, v, i, pc, stack, sp,
                   delay_timer, sound_timer, buffer, key, panicked, calls,
                   pushed, popped, steps>>

\* Input::get_key: last.val is the Option<&str> it returned.
GetKey ==
    /\ ~panicked
    /\ last' = Invocation("get_key", 0, 0, 0, <<>>, "Ok", get_key(key))
    /\ pre' = Snapshot
    /\ UNCHANGED <<timer_log, overflow_checks, decoded, memory, v, i, pc, stack, sp,
                   delay_timer, sound_timer, buffer, key, panicked, calls,
                   pushed, popped, steps>>

InputInit == Chip8_new

InputNext ==
    \/ \E k \in InputKeySamples : PressKey(k)
    \/ ReleaseKey
    \/ GetKeyU8
    \/ GetKey

SpecInput == InputInit /\ [][InputNext]_vars

\* A hexadecimal digit: a string of one character that is a digit in base 16.
IsHexDigit(s) == Len(s) = 1 /\ to_digit(s[1]) >= 0

\* C21: reading the latch as a numeric key code yields Ok(None) when no key
\* is pressed, Ok(Some(n)) with 0 <= n <= 15 when the latch holds a
\* hexadecimal digit, and InvalidKey carrying the latch's string for every
\* other latch value; it never yields a number of 16 or more.
C21_KeyCode ==
    (last.op = "get_key_u8")
    => /\ key = NoKey => (last.res = "Ok" /\ last.val = <<>>)
       /\ (key # NoKey /\ IsHexDigit(key[1]))
          => (last.res = "Ok" /\ Len(last.val) = 1 /\ last.val[1] \in 0 .. 15)
       /\ (key # NoKey /\ ~IsHexDigit(key[1]))
          => (last.res = "InvalidKey" /\ last.val = key[1])
       /\ last.res = "Ok" => \A j \in 1 .. Len(last.val) : last.val[j] < 16

\* C22: the latch holds at most one key: it is None initially and after any
\* release, and after press(k) it holds exactly k, whatever it held before;
\* reading the latch leaves it as it is.
C22_Latch ==
    /\ Len(key) <= 1
    /\ last.op \in {"new", "release_key"} => key = NoKey
    /\ last.op = "press_key" => key = Some(last.spr)
    /\ last.op \in {"get_key", "get_key_u8"} => key = pre.key

\* A key pressed while another was held has replaced it.
C22_Witness ==
    /\ last.op = "press_key"
    /\ pre.key = Some(<<"a">>)
    /\ key = Some(<<"1">>)

\* A release has emptied a latch that held a key.
C22_WitnessRelease ==
    /\ last.op = "release_key"
    /\ pre.key # NoKey
    /\ key = NoKey

----------------------------------------------------------------------------
(* The timers (src/src/chip8/timers.rs).  A run starts from the new        *)
(* machine with values in V0 and V1; the engine sets the timers from them  *)
(* and reads the delay timer, and the timer tick decrements both.          *)

MaxTimerSteps == 4

TimerDelayValues == {1, 2, 255}
TimerSoundValues == {0, 3}

TimerOps ==
    { Op("SetDelayTimer", 0, 0, 0), Op("SetSoundTimer", 1, 0, 0),
      Op("LoadDelayTimer", 1, 0, 0) }

\* Timers::decrement_timers, one tick.
DecrementTimers ==
    /\ ~panicked
    /\ LET m == decrement_timers(Machine) IN
         /\ delay_timer' = m.delay_timer
         /\ sound_timer' = m.sound_timer
    /\ last' = Invocation("decrement_timers", 0, 0, 0, <<>>, "Ok", 0)
    /\ pre' = Snapshot
    /\ steps' = steps + 1
    /\ timer_log' = [timer_log EXCEPT !.delay_ticks = @ + 1, !.sound_ticks = @ + 1]
    /\ UNCHANGED <<overflow_checks, decoded, memory, v, i, pc, stack, sp,
                   buffer, key, panicked, calls, pushed, popped>>

TimerInit ==
    \E d \in TimerDelayValues, s \in TimerSoundValues :
        StartWith([Registers_new EXCEPT ![0] = d, ![1] = s],
                  PROGRAM_START_ADDRESS, Stack_new, 0)

TimerNext ==
    \/ \E op \in TimerOps : steps < MaxTimerSteps /\ Execute(op)
    \/ steps < MaxTimerSteps /\ DecrementTimers

SpecTimers == TimerInit /\ [][TimerNext]_vars

Max(a, b) == IF a >= b THEN a ELSE b

\* C23: n ticks after a timer was set to d (by Timers::new to 0) it holds
\* max(d - n, 0), each timer on its own count: a tick takes one off a timer
\* above 0 and leaves a timer at 0 at 0, whatever the other timer holds.
C23_TimerTicks ==
    /\ delay_timer = Max(timer_log.delay_set - timer_log.delay_ticks, 0)
    /\ sound_timer = Max(timer_log.sound_set - timer_log.sound_ticks, 0)

\* The delay timer, set to 1, has stayed at 0 on a tick that took the sound
\* timer from 2 to 1.
C23_Witness ==
    /\ last.op = "decrement_timers"
    /\ timer_log.delay_set = 1
    /\ timer_log.delay_ticks >= 2
    /\ delay_timer = 0
    /\ timer_log.sound_set = 3
    /\ timer_log.sound_ticks = 2
    /\ sound_timer = 1

----------------------------------------------------------------------------
(* RegDump and RegLoad.  A run starts from the new machine with a register *)
(* file, an index register and three bytes in memory set (as the tests set *)
(* them), and executes RegDump, RegLoad and LoadByte.  The index register  *)
(* is well inside memory, 16, 2 or 1 bytes before its end, or beyond it.   *)

MaxRegSteps == 3

RegFiles ==
    { [r \in 0 .. DATA_REGISTER_COUNT - 1 |-> r + 1],
      [r \in 0 .. DATA_REGISTER_COUNT - 1 |-> 255 - 16 * r] }

RegIndexes == {256, 4080, 4094, 4095, 4096, 65535}

RegOps ==
    { Op("RegDump", 0, 0, 0), Op("RegDump", 2, 0, 0), Op("RegDump", 15, 0, 0),
      Op("RegLoad", 0, 0, 0), Op("RegLoad", 2, 0, 0), Op("RegLoad", 15, 0, 0),
      Op("LoadByte", 1, 9, 0) }

RegInit ==
    /\ overflow_checks \in BOOLEAN
    /\ memory = [Memory_new EXCEPT ![256] = 66, ![257] = 67, ![4095] = 153]
    /\ v \in RegFiles
    /\ i \in RegIndexes
    /\ pc = PROGRAM_START_ADDRESS
    /\ stack = Stack_new
    /\ sp = 0
    /\ delay_timer = 0
    /\ sound_timer = 0
    /\ buffer = Display_new
    /\ key = NoKey
    /\ panicked = FALSE
    /\ last = NoInvocation
    /\ decoded = NoDecode
    /\ pre = Snapshot
    /\ calls = <<>>
    /\ pushed = <<>>
    /\ popped = <<>>
    /\ steps = 0
    /\ timer_log = NoTimerLog

RegNext == \E op \in RegOps : steps < MaxRegSteps /\ Execute(op)

SpecRegs == RegInit /\ [][RegNext]_vars

\* C24: when I + x is inside memory, RegDump(x) stores V0..Vx at
\* memory[I..I+x] and RegLoad(x) loads V0..Vx from there; neither changes I,
\* the registers above Vx or the memory outside the range, RegDump changes no
\* register and RegLoad no memory; RegLoad(x) straight after RegDump(x)
\* leaves every register as it was.
C24_DumpLoad ==
    [][/\ (last'.op = "RegDump" /\ i + last'.a < MEMORY_SIZE)
          => /\ last'.res = "Ok"
             /\ i' = i
             /\ v' = v
             /\ \A k \in 0 .. last'.a : memory'[i + k] = v[k]
             /\ \A a \in 0 .. MEMORY_SIZE - 1 :
                   (a < i \/ a > i + last'.a) => memory'[a] = memory[a]
       /\ (last'.op = "RegLoad" /\ i + last'.a < MEMORY_SIZE)
          => /\ last'.res = "Ok"
             /\ i' = i
             /\ memory' = memory
             /\ \A k \in 0 .. last'.a : v'[k] = memory[i + k]
             /\ \A k \in last'.a + 1 .. DATA_REGISTER_COUNT - 1 : v'[k] = v[k]
       /\ (last.op = "RegDump" /\ last.res = "Ok"
           /\ last'.op = "RegLoad" /\ last'.a = last.a)
          => (last'.res = "Ok" /\ v' = v)]_vars

\* RegLoad(2) has loaded V0..V2 from memory that held other values than the
\* registers did, and left V3 alone.
C24_Witness ==
    /\ last.op = "RegLoad"
    /\ last.a = 2
    /\ last.res = "Ok"
    /\ i = 256
    /\ \A k \in 0 .. 2 : v[k] = memory[i + k] /\ v[k] # pre.v[k]
    /\ v[3] = pre.v[3]

\* RegDump(15) has stored all sixteen registers up to the last byte of memory.
C24_WitnessDump ==
    /\ last.op = "RegDump"
    /\ last.a = 15
    /\ last.res = "Ok"
    /\ i = 4080
    /\ \A k \in 0 .. 15 : memory[i + k] = v[k]

\* The first register whose address is outside memory.
FirstOutside(index, x) == IF index >= MEMORY_SIZE THEN 0 ELSE MEMORY_SIZE - index

\* C25: when I + x is outside memory, RegDump(x) and RegLoad(x) return
\* AddressOutOfBounds at the first register k whose address I + k is outside;
\* the transfers of V0..V(k-1) stay and nothing of Vk..Vx is transferred.
C25_PartialTransfer ==
    [][(last'.op \in {"RegDump", "RegLoad"} /\ i + last'.a >= MEMORY_SIZE)
       => LET k == FirstOutside(i, last'.a)
          IN  /\ last'.res = "AddressOutOfBounds"
              /\ i' = i
              /\ last'.op = "RegDump"
                 => /\ v' = v
                    /\ \A j \in 0 .. k - 1 : memory'[i + j] = v[j]
                    /\ \A a \in 0 .. MEMORY_SIZE - 1 :
                          a < i => memory'[a] = memory[a]
              /\ last'.op = "RegLoad"
                 => /\ memory' = memory
                    /\ \A j \in 0 .. k - 1 : v'[j] = memory[i + j]
                    /\ \A j \in k .. DATA_REGISTER_COUNT - 1 : v'[j] = v[j]]_vars

\* RegDump(2) with I two bytes before the end of memory has failed with V0
\* and V1 stored.
C25_Witness ==
    /\ last.op = "RegDump"
    /\ last.a = 2
    /\ last.res = "AddressOutOfBounds"
    /\ i = 4094
    /\ memory[4094] = v[0]
    /\ memory[4095] = v[1]
    /\ v[1] # 153

\* RegLoad(2) with I at the last byte of memory has failed with V0 loaded and
\* V1, V2 as they were.
C25_WitnessLoad ==
    /\ last.op = "RegLoad"
    /\ last.a = 2
    /\ last.res = "AddressOutOfBounds"
    /\ i = 4095
    /\ v[0] = memory[4095]
    /\ v[0] # pre.v[0]
    /\ v[1] = pre.v[1]
    /\ v[2] = pre.v[2]

----------------------------------------------------------------------------
(* StoreBCD.  A run starts from the new machine with any byte in V0, 47 in *)
(* VF and the index register well inside memory or three bytes before its *)
(* end, or with one of four bytes in V0 and the index register two bytes   *)
(* or one byte before the end of memory or beyond it.                      *)

MaxBcdSteps == 1

BcdIndexesInside == {768, 4093}
BcdIndexesOutside == {4094, 4095, 4096, 65535}
BcdValuesOutside == {0, 7, 123, 255}

BcdOps == { Op("StoreBCD", 0, 0, 0), Op("StoreBCD", 15, 0, 0) }

BcdInit ==
    /\ overflow_checks \in BOOLEAN
    /\ memory = Memory_new
    /\ \/ /\ v \in { [Registers_new EXCEPT ![0] = v0, ![15] = 47] :
                        v0 \in 0 .. U8 - 1 }
          /\ i \in BcdIndexesInside
       \/ /\ v \in { [Registers_new EXCEPT ![0] = v0, ![15] = 47] :
                        v0 \in BcdValuesOutside }
          /\ i \in BcdIndexesOutside
    /\ pc = PROGRAM_START_ADDRESS
    /\ stack = Stack_new
    /\ sp = 0
    /\ delay_timer = 0
    /\ sound_timer = 0
    /\ buffer = Display_new
    /\ key = NoKey
    /\ panicked = FALSE
    /\ last = NoInvocation
    /\ decoded = NoDecode
    /\ pre = Snapshot
    /\ calls = <<>>
    /\ pushed = <<>>
    /\ popped = <<>>
    /\ steps = 0
    /\ timer_log = NoTimerLog

BcdNext == \E op \in BcdOps : steps < MaxBcdSteps /\ Execute(op)

SpecBcd == BcdInit /\ [][BcdNext]_vars

\* C26: StoreBCD(x) with I, I + 1 or I + 2 at or beyond the end of memory
\* returns the error AddressOutOfBounds; it does not abort the process.
C26_StoreBcdError ==
    (last.op = "StoreBCD" /\ pre.i + 2 >= MEMORY_SIZE)
    => (last.res = "AddressOutOfBounds" /\ ~panicked)

\* C27: with I + 2 inside memory, StoreBCD(x) writes the hundreds, tens and
\* ones digits of Vx to memory[I], memory[I+1], memory[I+2]: each is in 0..9
\* and 100 * memory[I] + 10 * memory[I+1] + memory[I+2] = Vx; Vx and I are
\* unchanged.
C27_StoreBcd ==
    (last.op = "StoreBCD" /\ pre.i + 2 < MEMORY_SIZE)
    => /\ last.res = "Ok"
       /\ \A k \in 0 .. 2 : memory[pre.i + k] \in 0 .. 9
       /\ 100 * memory[pre.i] + 10 * memory[pre.i + 1] + memory[pre.i + 2]
          = pre.v[last.a]
       /\ v = pre.v
       /\ i = pre.i

\* StoreBCD of 254 has written 2, 5, 4 to the last three bytes of memory.
C27_Witness ==
    /\ last.op = "StoreBCD"
    /\ last.res = "Ok"
    /\ v[last.a] = 254
    /\ i = 4093
    /\ memory[4093] = 2
    /\ memory[4094] = 5
    /\ memory[4095] = 4

----------------------------------------------------------------------------
(* Boot and the font lookup.  A run starts from the new machine with any   *)
(* byte in V0 and 15 in VF; it boots (first, or not at all), sets the     *)
(* index register and executes LoadSpriteAddr.                             *)

MaxFontSteps == 2

FontOps ==
    { Op("LoadSpriteAddr", 0, 0, 0), Op("LoadSpriteAddr", 15, 0, 0),
      Op("SetIndex", 768, 0, 0) }

\* Chip8::boot.
Boot ==
    /\ ~panicked
    /\ LET r == boot(Machine) IN
         /\ memory' = r.m.memory
         /\ pc' = r.m.pc
         /\ last' = Invocation("boot", 0, 0, 0, <<>>, r.res, 0)
    /\ pre' = Snapshot
    /\ UNCHANGED <<timer_log, overflow_checks, decoded, v, i, stack, sp,
                   delay_timer, sound_timer, buffer, key, panicked, calls,
                   pushed, popped, steps>>

FontInit ==
    \E v0 \in 0 .. U8 - 1 :
        StartWith([Registers_new EXCEPT ![0] = v0, ![15] = 15], 0, Stack_new, 0)

FontNext ==
    \/ last.op = "new" /\ Boot
    \/ \E op \in FontOps : steps < MaxFontSteps /\ Execute(op)

SpecFont == FontInit /\ [][FontNext]_vars

\* C28: after boot PC is 0x200 and memory holds the glyphs of all 16
\* hexadecimal digits: for every digit d in 0..15 the font lookup returns an
\* address, the font table has a glyph for d, and the five bytes at that
\* address are that glyph.
C28_BootFont ==
    (last.op = "boot")
    => /\ last.res = "Ok"
       /\ pc = PROGRAM_START_ADDRESS
       /\ \A d \in 0 .. 15 :
             /\ get_sprite_address(d).res = "Ok"
             /\ d + 1 \in DOMAIN BUILT_IN_SPRITES
             /\ \A j \in 1 .. 5 :
                   memory[get_sprite_address(d).val + j - 1]
                   = BUILT_IN_SPRITES[d + 1][j]

\* C29: LoadSpriteAddr(x) sets I = 5 * Vx for every Vx in 0..15; for every
\* Vx >= 16 it returns InvalidSprite(Vx) and leaves I unchanged.
C29_LoadSpriteAddr ==
    (last.op = "LoadSpriteAddr")
    => /\ pre.v[last.a] \in 0 .. 15
          => (last.res = "Ok" /\ i = SPRITE_START_ADDRESS + 5 * pre.v[last.a])
       /\ pre.v[last.a] >= 16
          => /\ last.res = "InvalidSprite"
             /\ get_sprite_address(pre.v[last.a]).val = pre.v[last.a]
             /\ i = pre.i

\* LoadSpriteAddr with 15 in the register has set I to 75.
C29_Witness ==
    /\ last.op = "LoadSpriteAddr"
    /\ pre.v[last.a] = 15
    /\ last.res = "Ok"
    /\ i = 75

\* LoadSpriteAddr with 16 in the register has failed and left I at 0x300.
C29_WitnessInvalid ==
    /\ last.op = "LoadSpriteAddr"
    /\ pre.v[last.a] = 16
    /\ last.res = "InvalidSprite"
    /\ pre.i = 768
    /\ i = 768

----------------------------------------------------------------------------
(* The conditional skips.  A run starts from the new machine with values   *)
(* in V0 and V1 (equal or not) and PC at the program start or at the last  *)
(* even address of memory, and executes skip opcodes.                      *)

MaxSkipSteps == 2

SkipV0Values == {0, 16, 255}
SkipV1Values == {16, 32}
SkipCounters == {PROGRAM_START_ADDRESS, 4094}

SkipOps ==
    { Op("SkipIfEqual", 0, 16, 0), Op("SkipIfEqual", 0, 1, 0),
      Op("SkipIfNotEqual", 0, 16, 0), Op("SkipIfNotEqual", 0, 1, 0),
      Op("SkipIfRegEqual", 0, 1, 0), Op("SkipIfRegEqual", 1, 1, 0),
      Op("SkipIfRegNotEqual", 0, 1, 0), Op("SkipIfRegNotEqual", 1, 1, 0) }

SkipInit ==
    \E v0 \in SkipV0Values, v1 \in SkipV1Values, counter \in SkipCounters :
        StartWith([Registers_new EXCEPT ![0] = v0, ![1] = v1], counter,
                  Stack_new, 0)

SkipNext == \E op \in SkipOps : steps < MaxSkipSteps /\ Execute(op)

SpecSkip == SkipInit /\ [][SkipNext]_vars

\* The condition of a skip opcode on the register file regs.
SkipCondition(op, a, b, regs) ==
    CASE op = "SkipIfEqual" -> regs[a] = b
      [] op = "SkipIfNotEqual" -> regs[a] # b
      [] op = "SkipIfRegEqual" -> regs[a] = regs[b]
      [] op = "SkipIfRegNotEqual" -> regs[a] # regs[b]

\* C30: each conditional skip adds exactly 2 to PC when its condition holds
\* (SkipIfEqual: Vx = nn, SkipIfNotEqual: Vx # nn, SkipIfRegEqual: Vx = Vy,
\* SkipIfRegNotEqual: Vx # Vy), leaves PC unchanged otherwise, and changes
\* nothing else.
C30_Skips ==
    [][(last'.op \in {"SkipIfEqual", "SkipIfNotEqual", "SkipIfRegEqual",
                      "SkipIfRegNotEqual"})
       => /\ last'.res = "Ok"
          /\ pc' = IF SkipCondition(last'.op, last'.a, last'.b, v)
                   THEN pc + 2 ELSE pc
          /\ UNCHANGED <<memory, v, i, stack, sp, delay_timer, sound_timer,
                         buffer, key>>]_vars

\* SkipIfRegNotEqual has skipped, second after a skip opcode whose condition
\* did not hold.
C30_Witness ==
    /\ last.op = "SkipIfRegNotEqual"
    /\ v[last.a] # v[last.b]
    /\ pc = pre.pc + 2
    /\ steps = 2
    /\ pc = PROGRAM_START_ADDRESS + 2

\* SkipIfEqual has not skipped: the register differs from the byte.
C30_WitnessNoSkip ==
    /\ last.op = "SkipIfEqual"
    /\ v[last.a] # last.b
    /\ pc = pre.pc

----------------------------------------------------------------------------
(* Failing opcodes.  A run starts from the booted machine with the glyph   *)
(* of 0 on the display, the timers set, PC at 0x2A6, an empty or a full    *)
(* stack, a sprite index or 16 in V0, I inside memory or at its last byte, *)
(* and no key, the key "1" or the string "G" in the latch; it executes     *)
(* opcodes that fail in some of these states and succeed in others.        *)

MaxErrSteps == 2

ErrDepths == {0, STACK_SIZE}
ErrV0Values == {3, 16}
ErrIndexes == {0, 4095}
ErrKeys == {NoKey, Some(<<"1">>), Some(<<"G">>)}

ErrOps ==
    { Op("Call", 768, 0, 0), Op("Return", 0, 0, 0), Op("Draw", 0, 1, 5),
      Op("LoadSpriteAddr", 0, 0, 0), Op("WaitForKey", 2, 0, 0),
      Op("Undefined", 20497, 0, 0) }

ErrInit ==
    /\ overflow_checks \in BOOLEAN
    /\ \E depth \in ErrDepths, v0 \in ErrV0Values, index \in ErrIndexes,
          latch \in ErrKeys :
          LET m == boot([memory |-> Memory_new,
                         v |-> [Registers_new EXCEPT ![0] = v0, ![1] = 1],
                         i |-> index, pc |-> 0,
                         stack |-> [k \in 0 .. STACK_SIZE - 1 |->
                                       IF k < depth THEN 512 + 2 * k ELSE 0],
                         sp |-> depth, delay_timer |-> 7, sound_timer |-> 9,
                         buffer |-> draw_sprite(Display_new, 1, 2, Glyph0).buffer,
                         key |-> latch,
                         overflow_checks |-> overflow_checks]).m
          IN  /\ memory = m.memory
              /\ v = m.v
              /\ i = m.i
              /\ pc = 678
              /\ stack = m.stack
              /\ sp = m.sp
              /\ delay_timer = m.delay_timer
              /\ sound_timer = m.sound_timer
              /\ buffer = m.buffer
              /\ key = m.key
              /\ calls = [k \in 1 .. depth |-> m.stack[k - 1]]
    /\ panicked = FALSE
    /\ last = NoInvocation
    /\ decoded = NoDecode
    /\ pre = Snapshot
    /\ pushed = <<>>
    /\ popped = <<>>
    /\ steps = 0
    /\ timer_log = [delay_set |-> 7, delay_ticks |-> 0,
                    sound_set |-> 9, sound_ticks |-> 0]

ErrNext == \E op \in ErrOps : steps < MaxErrSteps /\ Execute(op)

SpecErr == ErrInit /\ [][ErrNext]_vars

\* C31: when executing an opcode other than RegDump and RegLoad returns an
\* error, the whole machine (memory, V registers, I, PC, stack, timers,
\* display, key latch) is as it was before the call.
C31_ErrorAtomic ==
    [][(last'.op \notin {"RegDump", "RegLoad"} /\ last'.res \notin {"Ok", "panic"})
       => UNCHANGED <<memory, v, i, pc, stack, sp, delay_timer, sound_timer,
                      buffer, key>>]_vars

\* A Call on the full stack has failed.
C31_Witness ==
    /\ last.op = "Call"
    /\ last.res = "StackOverflow"
    /\ sp = STACK_SIZE
    /\ pc = 678

\* Each of the other opcodes has failed: Return, Draw, LoadSpriteAddr,
\* WaitForKey and an undefined opcode.
C31_WitnessReturn == last.op = "Return" /\ last.res = "StackUnderflow"

C31_WitnessDraw == last.op = "Draw" /\ last.res = "AddressOutOfBounds"

C31_WitnessFont == last.op = "LoadSpriteAddr" /\ last.res = "InvalidSprite"

C31_WitnessKey == last.op = "WaitForKey" /\ last.res = "InvalidKey"

C31_WitnessUndefined == last.op = "Undefined" /\ last.res = "InvalidOpcode"

----------------------------------------------------------------------------
(* More on the decoder, checked on the runs of SpecDecode.                 *)

\* The opcode of each address-carrying family, by the first nibble.
AddressFamily(code) ==
    CASE code = 0 -> "SysAddr"
      [] code = 1 -> "Jump"
      [] code = 2 -> "Call"
      [] code = 10 -> "SetIndex"
      [] code = 11 -> "JumpV0"

C32_WitnessValid ==
    /\ last.op = "from_bytes"
    /\ last.a = 163
    /\ last.b = 255
    /\ decoded = Decoded(Op("SetIndex", 1023, 0, 0))

\* What each opcode carries: register indices in 0..15, a Draw length in
\* 0..15, immediates in 0..255, addresses in 12 bits.
OperandsInRange(op) ==
    CASE op.name \in {"ClearDisplay", "Return"} -> TRUE
      [] op.name \in {"SysAddr", "Jump", "Call", "SetIndex", "JumpV0"} ->
            op.a \in 0 .. 4095
      [] op.name \in {"SkipIfEqual", "SkipIfNotEqual", "LoadByte", "AddByte",
                      "Random"} ->
            op.a \in 0 .. 15 /\ op.b \in 0 .. 255
      [] op.name \in {"SkipIfRegEqual", "SkipIfRegNotEqual", "LoadReg", "Or",
                      "And", "Xor", "AddReg", "Sub", "SubN"} ->
            op.a \in 0 .. 15 /\ op.b \in 0 .. 15
      [] op.name = "Draw" ->
            op.a \in 0 .. 15 /\ op.b \in 0 .. 15 /\ op.c \in 0 .. 15
      [] op.name \in {"ShiftRight", "ShiftLeft", "SkipIfKeyPressed",
                      "SkipIfKeyNotPressed", "LoadDelayTimer", "WaitForKey",
                      "SetDelayTimer", "SetSoundTimer", "AddI",
                      "LoadSpriteAddr", "StoreBCD", "RegDump", "RegLoad"} ->
            op.a \in 0 .. 15
      [] OTHER -> FALSE

\* A decoding result is one of an opcode with operands in range, InvalidOpcode
\* and InvalidAddress.
WellDecoded(r) ==
    /\ r.res \in {"Ok", "InvalidOpcode", "InvalidAddress"}
    /\ r.res = "Ok" => OperandsInRange(r.op)
    /\ r.res # "Ok" => r.op.name = "none"

\* C33: decoding is a total function of the two bytes: every 16-bit word
\* yields exactly one of an opcode, InvalidOpcode and InvalidAddress, and
\* every opcode produced carries register indices in 0..15, a Draw length in
\* 0..15 and immediates in 0..255.  The word a run has decoded is checked on
\* the run's result, and all 65536 words on the decoder itself.
C33_DecodeTotal ==
    /\ last.op = "from_bytes"
       => (decoded = from_bytes(last.a, last.b) /\ WellDecoded(decoded))
    /\ last.op = "new"
       => \A msb \in 0 .. U8 - 1, lsb \in 0 .. U8 - 1 :
             WellDecoded(from_bytes(msb, lsb))

\* The word 0xDF1F has been decoded to Draw(15, 1, 15).
C33_Witness ==
    /\ last.op = "from_bytes"
    /\ last.a = 223
    /\ last.b = 31
    /\ decoded = Decoded(Op("Draw", 15, 1, 15))

\* The word 0xFFFF has been decoded to InvalidOpcode(0xFFFF).
C33_WitnessInvalid ==
    /\ last.op = "from_bytes"
    /\ last.a = 255
    /\ last.b = 255
    /\ decoded.res = "InvalidOpcode"
    /\ decoded.val = 65535

----------------------------------------------------------------------------
(* Every opcode and the timer tick.  A run starts from the booted machine  *)
(* with the timers at 0 or set (delay to 7, sound to 9), 3 in V0, 200 in   *)
(* V1 and I at 0x300, and executes opcodes of every kind, in any order     *)
(* with timer ticks.                                                       *)

MaxFrameSteps == 2

FrameDelayValues == {0, 7}
FrameSoundValues == {0, 9}

FrameOps ==
    { Op("AddByte", 0, 255, 0), Op("AddI", 1, 0, 0), Op("AddReg", 0, 1, 0),
      Op("And", 0, 1, 0), Op("Call", 768, 0, 0), Op("ClearDisplay", 0, 0, 0),
      Op("Draw", 0, 0, 5), Op("Jump", 768, 0, 0), Op("JumpV0", 768, 0, 0),
      Op("LoadByte", 0, 15, 0), Op("LoadDelayTimer", 2, 0, 0),
      Op("LoadReg", 0, 1, 0), Op("LoadSpriteAddr", 0, 0, 0), Op("Or", 0, 1, 0),
      Op("Random", 0, 204, 170), Op("Random", 0, 204, 255),
      Op("RegDump", 1, 0, 0), Op("RegLoad", 1, 0, 0), Op("Return", 0, 0, 0),
      Op("SetDelayTimer", 0, 0, 0), Op("SetDelayTimer", 1, 0, 0),
      Op("SetIndex", 4095, 0, 0), Op("SetSoundTimer", 0, 0, 0),
      Op("SetSoundTimer", 1, 0, 0), Op("ShiftLeft", 0, 0, 0),
      Op("ShiftRight", 0, 0, 0), Op("SkipIfEqual", 0, 3, 0),
      Op("SkipIfKeyNotPressed", 0, 0, 0), Op("SkipIfKeyPressed", 0, 0, 0),
      Op("SkipIfNotEqual", 0, 3, 0), Op("SkipIfRegEqual", 0, 1, 0),
      Op("SkipIfRegNotEqual", 0, 1, 0), Op("StoreBCD", 1, 0, 0),
      Op("Sub", 0, 1, 0), Op("SubN", 0, 1, 0), Op("SysAddr", 768, 0, 0),
      Op("Undefined", 65535, 0, 0), Op("WaitForKey", 2, 0, 0),
      Op("Xor", 0, 1, 0) }

FrameInit ==
    /\ overflow_checks \in BOOLEAN
    /\ \E d \in FrameDelayValues, s \in FrameSoundValues :
          LET m == boot([memory |-> Memory_new,
                         v |-> [Registers_new EXCEPT ![0] = 3, ![1] = 200],
                         i |-> 768, pc |-> 0, stack |-> Stack_new, sp |-> 0,
                         delay_timer |-> d, sound_timer |-> s,
                         buffer |-> Display_new, key |-> NoKey,
                         overflow_checks |-> overflow_checks]).m
          IN  /\ memory = m.memory
              /\ v = m.v
              /\ i = m.i
              /\ pc = m.pc
              /\ stack = m.stack
              /\ sp = m.sp
              /\ delay_timer = m.delay_timer
              /\ sound_timer = m.sound_timer
              /\ buffer = m.buffer
              /\ key = m.key
              /\ timer_log = [delay_set |-> d, delay_ticks |-> 0,
                              sound_set |-> s, sound_ticks |-> 0]
    /\ panicked = FALSE
    /\ last = NoInvocation
    /\ decoded = NoDecode
    /\ pre = Snapshot
    /\ calls = <<>>
    /\ pushed = <<>>
    /\ popped = <<>>
    /\ steps = 0

FrameNext ==
    \/ \E op \in FrameOps : steps < MaxFrameSteps /\ Execute(op)
    \/ steps < MaxFrameSteps /\ DecrementTimers

SpecFrame == FrameInit /\ [][FrameNext]_vars

\* C34: executing an opcode other than SetDelayTimer and SetSoundTimer leaves
\* both timers unchanged; SetDelayTimer changes only the delay timer (to Vx)
\* and SetSoundTimer only the sound timer (to Vx); a timer gets smaller only
\* in a timer tick or when it is set.
C34_TimerFrame ==
    [][/\ last'.op \notin {"SetDelayTimer", "SetSoundTimer", "decrement_timers"}
          => UNCHANGED <<delay_timer, sound_timer>>
       /\ last'.op = "SetDelayTimer"
          => (delay_timer' = v[last'.a] /\ sound_timer' = sound_timer)
       /\ last'.op = "SetSoundTimer"
          => (sound_timer' = v[last'.a] /\ delay_timer' = delay_timer)
       /\ delay_timer' < delay_timer
          => last'.op \in {"decrement_timers", "SetDelayTimer"}
       /\ sound_timer' < sound_timer
          => last'.op \in {"decrement_timers", "SetSoundTimer"}]_vars

\* SetDelayTimer has set the delay timer to 200 and left the sound timer at 9.
C34_Witness ==
    /\ last.op = "SetDelayTimer"
    /\ delay_timer = 200
    /\ sound_timer = 9

\* An opcode that reads the delay timer has left both timers set.
C34_WitnessOther ==
    /\ last.op = "LoadDelayTimer"
    /\ delay_timer = 7
    /\ sound_timer = 9
    /\ v[2] = 7

----------------------------------------------------------------------------
(* The timers under a scheduler that keeps ticking.  A run starts with the *)
(* timers set (as SetDelayTimer and SetSoundTimer leave them); the timer   *)
(* tick is invoked again and again, and the engine executes a few opcodes  *)
(* that set no timer.  The count of ticks since a timer was set is kept up *)
(* to MaxTickCount.                                                        *)

MaxTickCount == 255
MaxTickingSteps == 1

TickingDelayValues == {1, 255}
TickingSoundValues == {0, 3, 255}

TickingOps == { Op("LoadByte", 0, 15, 0), Op("SysAddr", 768, 0, 0) }

\* Timers::decrement_timers, invoked by the scheduler.
TimerTick ==
    /\ ~panicked
    /\ LET m == decrement_timers(Machine) IN
         /\ delay_timer' = m.delay_timer
         /\ sound_timer' = m.sound_timer
    /\ last' = Invocation("decrement_timers", 0, 0, 0, <<>>, "Ok", 0)
    /\ pre' = Snapshot
    /\ timer_log' =
          [timer_log EXCEPT
              !.delay_ticks = IF @ < MaxTickCount THEN @ + 1 ELSE @,
              !.sound_ticks = IF @ < MaxTickCount THEN @ + 1 ELSE @]
    /\ UNCHANGED <<overflow_checks, decoded, memory, v, i, pc, stack, sp,
                   buffer, key, panicked, calls, pushed, popped, steps>>

TickingInit ==
    /\ \E d \in TickingDelayValues, s \in TickingSoundValues :
          /\ delay_timer = d
          /\ sound_timer = s
          /\ timer_log = [delay_set |-> d, delay_ticks |-> 0,
                          sound_set |-> s, sound_ticks |-> 0]
    /\ overflow_checks \in BOOLEAN
    /\ memory = Memory_new
    /\ v = Registers_new
    /\ i = 0
    /\ pc = PROGRAM_START_ADDRESS
    /\ stack = Stack_new
    /\ sp = 0
    /\ buffer = Display_new
    /\ key = NoKey
    /\ panicked = FALSE
    /\ last = NoInvocation
    /\ decoded = NoDecode
    /\ pre = Snapshot
    /\ calls = <<>>
    /\ pushed = <<>>
    /\ popped = <<>>
    /\ steps = 0

TickingNext ==
    \/ TimerTick
    \/ \E op \in TickingOps : steps < MaxTickingSteps /\ Execute(op)

\* The scheduler keeps invoking the tick: weak fairness of TimerTick.
SpecTicking == TickingInit /\ [][TickingNext]_vars /\ WF_vars(TimerTick)

\* C35: when the tick keeps being invoked and no instruction sets a timer
\* again, both timers reach 0 and remain 0 forever, each within at most 255
\* ticks of being set.
C35_TimersExpire ==
    /\ <>[](delay_timer = 0 /\ sound_timer = 0)
    /\ [](timer_log.delay_ticks >= 255 => delay_timer = 0)
    /\ [](timer_log.sound_ticks >= 255 => sound_timer = 0)

\* The delay timer, set to 255, has reached 0 on the 255th tick.
C35_Witness ==
    /\ last.op = "decrement_timers"
    /\ timer_log.delay_set = 255
    /\ timer_log.delay_ticks = 255
    /\ delay_timer = 0
    /\ sound_timer = 0

----------------------------------------------------------------------------
(* Sprites at the bottom edge.  A run starts from the displays of          *)
(* DisplayInit and draws sprites of 5 and 15 bytes at the top row, three   *)
(* rows above the bottom and in the bottom row.                            *)

MaxWrapDraws == 2

WrapRows == {0, BUFFER_HEIGHT - 3, BUFFER_HEIGHT - 1}
WrapCols == {0, 12}
WrapSprites ==
    { <<128, 128, 128, 128, 128>>, Glyph0,
      [k \in 1 .. 15 |-> IF k % 2 = 1 THEN 255 ELSE 129] }

WrapInit == DisplayInit

WrapNext ==
    \E row \in WrapRows, col \in WrapCols, sprite_value \in WrapSprites :
        steps < MaxWrapDraws /\ DisplayDraw(row, col, sprite_value)

SpecWrap == WrapInit /\ [][WrapNext]_vars

\* C36: byte k (from 0) of a sprite drawn at row r is composed into the
\* framebuffer row (r + k) mod height, past the bottom edge into the top
\* rows; the rows that are (r + k) mod height for no k are left alone.
C36_BottomWrap ==
    [][(last'.op = "draw_sprite" /\ last'.res = "Ok")
       => \A r \in 0 .. BUFFER_HEIGHT - 1 :
             IF \E k \in 0 .. Len(last'.spr) - 1 :
                   r = (last'.a + k) % BUFFER_HEIGHT
             THEN LET k == CHOOSE k \in 0 .. Len(last'.spr) - 1 :
                               r = (last'.a + k) % BUFFER_HEIGHT
                  IN  buffer'[r]
                      = draw_sprite_row(buffer, r, last'.b, last'.spr[k + 1]).buffer[r]
             ELSE buffer'[r] = buffer[r]]_vars

\* A 5-byte sprite drawn on the blank display three rows above the bottom
\* occupies the rows height-3, height-2, height-1, 0 and 1 and no other.
C36_Witness ==
    /\ last.op = "draw_sprite"
    /\ last.res = "Ok"
    /\ last.a = BUFFER_HEIGHT - 3
    /\ last.b = 0
    /\ last.spr = <<128, 128, 128, 128, 128>>
    /\ pre.buffer = Display_new
    /\ \A r \in 0 .. BUFFER_HEIGHT - 1 :
          buffer[r][0] = IF r \in {BUFFER_HEIGHT - 3, BUFFER_HEIGHT - 2,
                                   BUFFER_HEIGHT - 1, 0, 1}
                         THEN 128 ELSE 0

----------------------------------------------------------------------------
(* The program counter at the ends of its range.  A run starts from the    *)
(* booted machine (PC at 0x200, 1 in V0, no key pressed) and executes      *)
(* jumps, calls, skips and WaitForKey.                                     *)

MaxPcSteps == 2

PcOps ==
    { Op("Jump", 0, 0, 0), Op("Jump", 1, 0, 0), Op("Jump", 2, 0, 0),
      Op("JumpV0", 1023, 0, 0), Op("Call", 0, 0, 0), Op("Return", 0, 0, 0),
      Op("WaitForKey", 2, 0, 0), Op("SkipIfEqual", 0, 1, 0),
      Op("SkipIfNotEqual", 0, 1, 0), Op("SkipIfRegEqual", 0, 0, 0),
      Op("SkipIfRegNotEqual", 0, 1, 0), Op("SkipIfKeyPressed", 0, 0, 0),
      Op("SkipIfKeyNotPressed", 0, 0, 0) }

PcInit ==
    /\ overflow_checks \in BOOLEAN
    /\ LET m == boot([memory |-> Memory_new,
                      v |-> [Registers_new EXCEPT ![0] = 1],
                      i |-> 0, pc |-> 0, stack |-> Stack_new, sp |-> 0,
                      delay_timer |-> 0, sound_timer |-> 0,
                      buffer |-> Display_new, key |-> NoKey,
                      overflow_checks |-> overflow_checks]).m
       IN  /\ memory = m.memory
           /\ v = m.v
           /\ i = m.i
           /\ pc = m.pc
           /\ stack = m.stack
           /\ sp = m.sp
           /\ delay_timer = m.delay_timer
           /\ sound_timer = m.sound_timer
           /\ buffer = m.buffer
           /\ key = m.key
    /\ panicked = FALSE
    /\ last = NoInvocation
    /\ decoded = NoDecode
    /\ pre = Snapshot
    /\ calls = <<>>
    /\ pushed = <<>>
    /\ popped = <<>>
    /\ steps = 0
    /\ timer_log = NoTimerLog

PcNext == \E op \in PcOps : steps < MaxPcSteps /\ Execute(op)

SpecPc == PcInit /\ [][PcNext]_vars

\* C37: in every state reachable from boot by opcode executions the PC
\* arithmetic stays in the 16-bit range: WaitForKey with no key pressed is
\* never executed with PC below 2 (it takes 2 off PC, without wrapping and
\* without aborting), and a skip opcode leaves PC or adds 2 to it, never from
\* a PC above 0xFFFD.
C37_PcInRange ==
    /\ (last.op = "WaitForKey" /\ pre.key = NoKey)
       => (pre.pc >= 2 /\ last.res = "Ok" /\ pc = pre.pc - 2)
    /\ (last.op \in {"SkipIfEqual", "SkipIfNotEqual", "SkipIfRegEqual",
                     "SkipIfRegNotEqual", "SkipIfKeyPressed",
                     "SkipIfKeyNotPressed"})
       => (last.res = "Ok" /\ pc \in {pre.pc, pre.pc + 2}
           /\ (pc # pre.pc => pre.pc <= 65533))

----------------------------------------------------------------------------
(* The shape of the call stack over a run of Calls, Returns and Jumps.     *)
(* The history variable calls holds the return addresses of the Calls not  *)
(* yet returned from, oldest first.                                        *)

\* C38: after any sequence of Call and Return executions, successful or
\* failing, the stack depth is in 0..16 and equals the number of successful
\* Calls minus the number of successful Returns (the length of calls), and
\* the entries below the depth are the return addresses of the Calls not yet
\* returned from, in call order.
C38_StackShape ==
    /\ sp \in 0 .. STACK_SIZE
    /\ sp = Len(calls)
    /\ \A k \in 0 .. sp - 1 : stack[k] = calls[k + 1]

\* C38 witness: two nested Calls and a Return from the empty stack leave
\* depth 1, holding the first Call's return address, with PC back at the
\* second Call's.
C38_Witness ==
    /\ steps = 3
    /\ last.op = "Return"
    /\ last.res = "Ok"
    /\ sp = 1
    /\ calls = <<PROGRAM_START_ADDRESS>>
    /\ stack[0] = PROGRAM_START_ADDRESS
    /\ stack[1] = 768
    /\ pc = 768

\* C38 witness, failing executions: a refused Call on the full stack after
\* a Return and a Call had refilled the top slot.
C38_WitnessOverflow ==
    /\ last.op = "Call"
    /\ last.res = "StackOverflow"
    /\ sp = STACK_SIZE
    /\ steps >= 3
    /\ stack[STACK_SIZE - 1] = calls[STACK_SIZE]
    /\ calls[STACK_SIZE] \in CallTargets \cup JumpTargets

----------------------------------------------------------------------------
(* The keypad (src/src/main.rs).  Window key events reach the key latch    *)
(* through Emulator::handle_key_event; the engine reads the latch when it  *)
(* executes WaitForKey or a skip-if-key opcode.                            *)

KEY_MAP ==
    ("1" :> "1") @@ ("2" :> "2") @@ ("3" :> "3") @@ ("4" :> "c") @@
    ("q" :> "4") @@ ("w" :> "5") @@ ("e" :> "6") @@ ("r" :> "d") @@
    ("a" :> "7") @@ ("s" :> "8") @@ ("d" :> "9") @@ ("f" :> "e") @@
    ("z" :> "a") @@ ("x" :> "0") @@ ("c" :> "b") @@ ("v" :> "f")

get_mapped_key(pressed_key) ==
    IF Len(pressed_key) = 1 /\ pressed_key[1] \in DOMAIN KEY_MAP
    THEN Some(<<KEY_MAP[pressed_key[1]]>>)
    ELSE NoKey

KeyEvent(kind, text, pressed) ==
    [kind |-> kind, text |-> text, pressed |-> pressed]

HandleKeyEventReleasesOwnKey(m, key_event) ==
    IF key_event.kind = "Character"
    THEN IF key_event.pressed
         THEN LET mapped == get_mapped_key(key_event.text)
              IN  IF mapped # NoKey THEN press_key(m, mapped[1]) ELSE m
         ELSE IF m.key = get_mapped_key(key_event.text)
              THEN release_key(m)
              ELSE m
    ELSE m

handle_key_event(m, key_event) ==
    IF key_event.kind = "Character"
    THEN IF key_event.pressed
         THEN LET mapped == get_mapped_key(key_event.text)
              IN  IF mapped # NoKey THEN press_key(m, mapped[1]) ELSE m
         ELSE release_key(m)
    ELSE m

MaxKeypadSteps == 2

\* Three keys of the map, a character outside it, and a key that is not a
\* character, each pressed and released.
KeypadEvents ==
    { KeyEvent("Character", <<c>>, p) : c \in {"1", "q", "x", "p"}, p \in BOOLEAN }
    \cup { KeyEvent("Named", <<>>, p) : p \in BOOLEAN }

KeypadOps ==
    { Op("WaitForKey", 0, 0, 0), Op("SkipIfKeyPressed", 0, 0, 0),
      Op("SkipIfKeyNotPressed", 0, 0, 0) }

HandleKeyEvent(key_event) ==
    /\ ~panicked
    /\ key' = handle_key_event(Machine, key_event).key
    /\ last' = Invocation("handle_key_event",
                          IF key_event.pressed THEN 1 ELSE 0,
                          IF key_event.kind = "Character" THEN 1 ELSE 0,
                          0, key_event.text, "Ok", 0)
    /\ pre' = Snapshot
    /\ UNCHANGED <<timer_log, overflow_checks, decoded, memory, v, i, pc, stack, sp,
                   delay_timer, sound_timer, buffer, panicked, calls, pushed,
                   popped, steps>>

KeypadInit == EngineInit

KeypadNext ==
    \/ \E key_event \in KeypadEvents : HandleKeyEvent(key_event)
    \/ \E op \in KeypadOps : steps < MaxKeypadSteps /\ Execute(op)

SpecKeypad == KeypadInit /\ [][KeypadNext]_vars

\* C39: the key latch keeps no history.  The release event of a character
\* key empties the latch whichever key is latched, also when the released
\* key is an earlier one than the key now latched; and what WaitForKey and
\* the skip-if-key opcodes observe is the latch at the moment they execute,
\* so that a press followed by a release before the execution is lost:
\* WaitForKey then rewinds PC and leaves the registers, SkipIfKeyPressed does
\* not skip and SkipIfKeyNotPressed skips.
C39_LatchNoHistory ==
    [][/\ (last'.op = "handle_key_event" /\ last'.a = 0 /\ last'.b = 1)
          => key' = NoKey
       /\ (last'.op = "WaitForKey" /\ last'.res # "panic")
          => /\ key = NoKey => (pc' = pc - 2 /\ v' = v)
             /\ key # NoKey
                => (pc' = pc /\ v'[last'.a] = KeyCode[key[1]])
       /\ (last'.op = "SkipIfKeyPressed")
          => ((pc' = pc + 2) <=> (key # NoKey /\ KeyCode[key[1]] = v[last'.a]))
       /\ (last'.op = "SkipIfKeyNotPressed")
          => ((pc' = pc + 2) <=> (key = NoKey \/ KeyCode[key[1]] # v[last'.a]))
       /\ (last.op = "handle_key_event" /\ last.a = 0 /\ last.b = 1
           /\ last'.op \in {"WaitForKey", "SkipIfKeyPressed"})
          => (v' = v /\ pc' = IF last'.op = "WaitForKey" THEN pc - 2 ELSE pc)
      ]_vars

\* C39 witness: with "1" latched (pressed after "q"), the release event of
\* "q" emptied the latch.
C39_Witness ==
    /\ last.op = "handle_key_event"
    /\ last.a = 0
    /\ last.spr = <<"q">>
    /\ pre.key = Some(<<"1">>)
    /\ key = NoKey

\* C39 witness, the lost press: WaitForKey(0) executed on an empty latch
\* for the second time, so that whatever was pressed in between had been
\* released again; PC is 4 below the program start and V0 is as booted.
C39_WitnessLost ==
    /\ last.op = "WaitForKey"
    /\ steps = 2
    /\ pre.key = NoKey
    /\ pc = PROGRAM_START_ADDRESS - 4
    /\ v[0] = pre.v[0]

----------------------------------------------------------------------------
(* Loading a program (Chip8::load_rom).  A run starts from the machine as  *)
(* constructed and calls load_rom and boot in any order.                   *)

\* The loop of load_rom over bytes lo .. hi - 1 of the program, in rising
\* order (first half, then second half); a failed write_byte is unwrapped,
\* which panics and ends the loop.
RECURSIVE LoadRomRange(_, _, _, _)
LoadRomRange(r, rom, lo, hi) ==
    IF r.res # "Ok" \/ lo >= hi
    THEN r
    ELSE IF hi = lo + 1
    THEN WriteByteUnwrap(r, PROGRAM_START_ADDRESS + lo, rom[lo + 1])
    ELSE LET mid == (lo + hi) \div 2
         IN  LoadRomRange(LoadRomRange(r, rom, lo, mid), rom, mid, hi)

load_rom(m, rom) == LoadRomRange(Done(m), rom, 0, Len(rom))

MaxRomSteps == 2

\* Programs: the four bytes of the test, and programs of 0 and 1 bytes, of
\* exactly the room above the program start, and of one byte more.
RomRoom == MEMORY_SIZE - PROGRAM_START_ADDRESS
RomLengths == {0, 1, RomRoom, RomRoom + 1}
RomSamples ==
    { <<18, 52, 86, 120>> }
    \cup { [k \in 1 .. n |-> (7 * k + f) % U8] : n \in RomLengths, f \in {0, 171} }

LoadRom(rom) ==
    /\ ~panicked
    /\ LET r == load_rom(Machine, rom) IN
         /\ memory' = r.m.memory
         /\ panicked' = (r.res = "panic")
         /\ last' = Invocation("load_rom", 0, 0, 0, rom, r.res, 0)
    /\ pre' = Snapshot
    /\ steps' = steps + 1
    /\ UNCHANGED <<timer_log, overflow_checks, decoded, v, i, pc, stack, sp,
                   delay_timer, sound_timer, buffer, key, calls, pushed, popped>>

RomInit == Chip8_new

RomNext ==
    \/ \E rom \in RomSamples : steps < MaxRomSteps /\ LoadRom(rom)
    \/ last.op # "boot" /\ Boot

SpecRom == RomInit /\ [][RomNext]_vars

\* C40: load_rom copies byte i of the program to memory[0x200 + i] for
\* every i and changes no other address (so not the font area), for every
\* byte sequence, also one longer than 4096 - 0x200 bytes, without aborting
\* the process.
C40_LoadRom ==
    [][last'.op = "load_rom"
       => /\ last'.res = "Ok"
          /\ ~panicked'
          /\ \A a \in 0 .. MEMORY_SIZE - 1 :
                memory'[a] =
                   IF a >= PROGRAM_START_ADDRESS
                      /\ a - PROGRAM_START_ADDRESS < Len(last'.spr)
                   THEN last'.spr[a - PROGRAM_START_ADDRESS + 1]
                   ELSE memory[a]]_vars

====
